---- MODULE Spec2Model ----
(***************************************************************************)
(* Model of plotting_misc/plot_classes.py: the sample store, the colour    *)
(* assignment, the derived series, the plot options and the axis planning  *)
(* of Hist1D, RatioPlot, ProjectionPlot and PullPlot.                      *)
(*                                                                         *)
(* Python values are modelled as follows.                                  *)
(*   - a str is a sequence of one-character strings (so that `in` on a     *)
(*     str is the substring test Python performs);                         *)
(*   - an argument that may be a str or a list is a record [t, v] with     *)
(*     t = "str" (v the characters), t = "list" (v the elements) or        *)
(*     t = "none" (None);                                                  *)
(*   - a dict is the sequence of its [k, v] items in insertion order;      *)
(*   - a pickled file is a record [kind, values, edges, name, label];      *)
(*   - a float quotient is the exact fraction [num, den] in lowest terms;  *)
(*   - an optional number is a record [t, v] with t = "int" or t = "none"; *)
(*   - an attribute that was never assigned holds Unset.                   *)
(* Arguments range over the forms check_input handles: strings and lists   *)
(* (of strings, or holding an element that is not a string).               *)
(***************************************************************************)
EXTENDS Integers, Sequences, FiniteSets, TLC

VARIABLES
    disk,          \* directory content: sample name -> pickled object
    pc,            \* "new" | "ready" (constructor returned) | "raised"
    cls,           \* "Hist1D" | "RatioPlot" | "ProjectionPlot" | "PullPlot"
    raised_in,     \* method in which the constructor raised, "" if none
    op,            \* last public call made on the object
    errs,          \* logging.error records of the last public call
    call,          \* arguments of the constructor and of the last call
    samples,       \* self.samples
    data,          \* self.data
    is_stack,      \* self.is_stack
    errors,        \* self.errors
    samples_dict,  \* self.samples_dict
    histos_dict,   \* self.histos_dict
    histos_list,   \* self.histos_list
    data_dict,     \* self.data_dict
    plot_types,    \* self.plot_types
    colors_dict,   \* self.colors_dict
    names,         \* self.names
    labels,        \* self.labels
    histolabels,   \* self.histolabels
    scatterlabels, \* self.scatterlabels
    datasize,      \* self.datasize
    edges,         \* self.edges
    values,        \* self.values
    reference,     \* self.reference
    numerators,    \* self.numerators
    denominator,   \* self.denominator
    dvals,         \* self.dvals
    ratiovalues,   \* self.ratiovalues
    stack_in,      \* argument of the last get_stackvalues call
    stack_out,     \* its result
    shape,         \* self.shape
    need_grid,     \* self.need_grid
    gridaxis,      \* self.gridaxis
    gridline,      \* self.gridline
    legend_ncols,  \* self.legend_ncols
    rcps,          \* self.rcps
    rcParams,      \* mpl.rcParams, as far as the program writes it
    hist,          \* self.hist of a ProjectionPlot
    xsum,          \* self.xsum
    ysum,          \* self.ysum
    user_cmap,     \* self.user_cmap
    custom_ylims,  \* self.custom_ylims
    ylims,         \* self.ylims
    ystep,         \* self.ystep
    ybotrange,     \* self.ybotrange
    ybotlabels,    \* self.ybotlabels
    bars,          \* the ax.bar calls of the last histbins_errs
    figsize,       \* self.figsize
    xtitles_dict,  \* self.xtitles_dict
    ytitles_dict,  \* self.ytitles_dict
    fontsize,      \* self.fontsize
    mastersize,    \* self.mastersize
    spacing,       \* self.spacing
    stretch,       \* self.stretch
    pos_err,       \* self.pos_err of a PullPlot
    neg_err,       \* self.neg_err
    data_labels,   \* self.data_labels
    nvariables,    \* self.nvariables
    center,        \* self.center
    use_custom_range, \* self.use_custom_range
    rangelist,     \* self.rangelist
    user_xmin,     \* self.user_xmin
    user_xmax,     \* self.user_xmax
    labelside,     \* self.labelside
    onesigmacolor, \* self.onesigmacolor
    twosigmacolor, \* self.twosigmacolor
    errorbar_kw,   \* self.errorbar_kw
    xlim,          \* the ax.set_xlim call of the last pull_plot
    xticks         \* the ax.set_xticks call of the last pull_plot

store_vars == <<samples, data, is_stack, errors, samples_dict, histos_dict,
                histos_list, data_dict, plot_types>>
meta_vars  == <<names, labels, histolabels, scatterlabels, datasize, edges,
                values>>
ratio_vars == <<reference, numerators, denominator, dvals, ratiovalues>>
stack_vars == <<stack_in, stack_out>>
opt_vars   == <<shape, need_grid, gridaxis, gridline, legend_ncols, rcps,
                rcParams>>
proj_vars  == <<hist, xsum, ysum, user_cmap>>
axis_vars  == <<custom_ylims, ylims, ystep, ybotrange, ybotlabels>>
fig_vars   == <<figsize, xtitles_dict, ytitles_dict, fontsize, mastersize,
                spacing, stretch>>
pull_vars  == <<pos_err, neg_err, data_labels, nvariables, center,
                use_custom_range, rangelist, user_xmin, user_xmax, labelside,
                onesigmacolor, twosigmacolor, errorbar_kw, xlim, xticks>>
vars == <<disk, pc, cls, raised_in, op, errs, call, store_vars, colors_dict,
          meta_vars, ratio_vars, stack_vars, opt_vars, proj_vars, axis_vars,
          bars, fig_vars, pull_vars>>

----------------------------------------------------------------------------
(* Bounds *)

NBins      == 2   \* bins of a regular histogram
MaxVal     == 2   \* largest bin content
MaxSamples == 2   \* longest enumerated samples list
MaxData    == 2   \* longest enumerated data list
MaxStackLen == 3  \* longest list handed to get_stackvalues on its own
MaxGridLen == 2   \* longest enumerated line part of a grid string
MaxCols    == 2   \* largest legend column count asked for, either sign
MaxTick    == 4   \* largest axis limit and step, in quarters of a unit
MaxErr     == 3   \* largest error of a pull, in halves

----------------------------------------------------------------------------
(* Python values *)

Str(cs)  == [t |-> "str",  v |-> cs]
List(es) == [t |-> "list", v |-> es]
None     == [t |-> "none", v |-> <<>>]

NonStr == <<"<int>">>          \* a list element that is not a str
ALL    == <<"a", "l", "l">>    \* 'all'
TOTAL  == <<"t", "o", "t", "a", "l">>  \* 'total'
NoneVal == "<None>"            \* None as axis metadata
Unset  == <<"<unset>">>        \* an attribute that was never assigned

IntArg(n) == [t |-> "int", v |-> n]
NoInt     == [t |-> "none", v |-> 0]   \* None where a number is expected

\* bool(obj)
Truthy(obj) == obj.t # "none" /\ Len(obj.v) > 0

\* isinstance(x, str) for a list element
IsStr(x) == x # NonStr

\* x in s, s a str
IsSubstr(x, s) ==
    \E i \in 0..(Len(s) - Len(x)) : SubSeq(s, i + 1, i + Len(x)) = x

\* x in obj, obj a str or a list
PyIn(x, obj) ==
    IF obj.t = "list" THEN \E i \in 1..Len(obj.v) : obj.v[i] = x
    ELSE IsSubstr(x, obj.v)

\* len(obj)
PyLen(obj) == Len(obj.v)

\* obj if isinstance(obj, list) else [obj]
AsList(obj) == IF obj.t = "list" THEN obj ELSE List(<<obj.v>>)

(* dict, in insertion order *)
DictKeys(d)   == [i \in 1..Len(d) |-> d[i].k]
DictHas(d, k) == \E i \in 1..Len(d) : d[i].k = k
Keys(d)       == {d[i].k : i \in 1..Len(d)}
DictGet(d, k) == d[CHOOSE i \in 1..Len(d) : d[i].k = k].v
DictSet(d, k, x) ==
    IF DictHas(d, k)
    THEN [i \in 1..Len(d) |-> IF d[i].k = k THEN [k |-> k, v |-> x] ELSE d[i]]
    ELSE Append(d, [k |-> k, v |-> x])

Err(kind, what) == <<kind, what>>

----------------------------------------------------------------------------
(* EmptyPlot.type_checker(obj, str): the verdict and what it logs *)

type_checker(obj) ==
    IF obj.t = "list"
    THEN IF \A i \in 1..Len(obj.v) : IsStr(obj.v[i])
         THEN [ok |-> TRUE,  errs |-> <<>>]
         ELSE [ok |-> FALSE, errs |-> <<Err("type_list", <<>>)>>]
    ELSE IF obj.t = "str"
         THEN [ok |-> TRUE,  errs |-> <<>>]
         ELSE [ok |-> FALSE, errs |-> <<Err("type_obj", <<>>)>>]

----------------------------------------------------------------------------
(* Hist1D.check_input *)

\* the fields check_input reads and writes, as left by __init__ before it
Blank(smp, dat) ==
    [samples |-> smp, data |-> dat, samples_dict |-> <<>>,
     histos_dict |-> <<>>, histos_list |-> <<>>, data_dict |-> <<>>,
     plot_types |-> <<>>, errs |-> <<>>]

\* samplename in self.data or self.data == 'all'
IsDataName(n, dat) == PyIn(n, dat) \/ (dat.t = "str" /\ dat.v = ALL)

\* data_check that stops after the first name
data_check_first(i, dat, smp) ==
    IF i > Len(dat.v) THEN <<>>
    ELSE IF ~PyIn(dat.v[i], smp) THEN <<Err("no_variable", dat.v[i])>>
         ELSE <<>>

\* the loop over self.data that checks the names against self.samples
RECURSIVE data_check(_, _, _)
data_check(i, dat, smp) ==
    IF i > Len(dat.v) THEN <<>>
    ELSE (IF ~PyIn(dat.v[i], smp) THEN <<Err("no_variable", dat.v[i])>>
          ELSE <<>>) \o data_check(i + 1, dat, smp)

\* load_store with a data sample also filed among the histograms
load_store_both(n, obj, st) ==
    IF IsDataName(n, st.data)
    THEN [st EXCEPT !.samples_dict = DictSet(@, n, obj),
                    !.data_dict    = DictSet(@, n, obj),
                    !.histos_dict  = DictSet(@, n, obj),
                    !.plot_types   = DictSet(@, n, "data")]
    ELSE [st EXCEPT !.samples_dict = DictSet(@, n, obj),
                    !.histos_dict  = DictSet(@, n, obj),
                    !.histos_list  = Append(@, obj),
                    !.plot_types   = DictSet(@, n, "histo")]

\* load_store with a data sample filed nowhere but in samples_dict
load_store_nodata(n, obj, st) ==
    IF IsDataName(n, st.data)
    THEN [st EXCEPT !.samples_dict = DictSet(@, n, obj),
                    !.plot_types   = DictSet(@, n, "data")]
    ELSE [st EXCEPT !.samples_dict = DictSet(@, n, obj),
                    !.histos_dict  = DictSet(@, n, obj),
                    !.histos_list  = Append(@, obj),
                    !.plot_types   = DictSet(@, n, "histo")]

\* one loaded histogram is stored under its name and given its role
load_store(n, obj, st) ==
    IF IsDataName(n, st.data)
    THEN [st EXCEPT !.samples_dict = DictSet(@, n, obj),
                    !.data_dict    = DictSet(@, n, obj),
                    !.plot_types   = DictSet(@, n, "data")]
    ELSE [st EXCEPT !.samples_dict = DictSet(@, n, obj),
                    !.histos_dict  = DictSet(@, n, obj),
                    !.histos_list  = Append(@, obj),
                    !.plot_types   = DictSet(@, n, "histo")]

\* load_loop with `continue` in place of `break`
RECURSIVE load_loop_continue(_, _, _)
load_loop_continue(i, files, st) ==
    IF i > Len(st.samples.v) THEN st
    ELSE LET n == st.samples.v[i]
             obj == files[n]
         IN  IF obj.kind = "missing"
             THEN load_loop_continue(i + 1, files,
                    [st EXCEPT !.errs = Append(@, Err("no_file", n))])
             ELSE IF obj.kind # "hist"
             THEN load_loop_continue(i + 1, files,
                    [st EXCEPT !.errs = Append(@, Err("not_hist", n))])
             ELSE load_loop_continue(i + 1, files, load_store(n, obj, st))

\* the loop over self.samples that loads the files; a break ends it
RECURSIVE load_loop(_, _, _)
load_loop(i, files, st) ==
    IF i > Len(st.samples.v) THEN st
    ELSE LET n == st.samples.v[i]
             obj == files[n]
         IN  IF obj.kind = "missing"
             THEN [st EXCEPT !.errs = Append(@, Err("no_file", n))]
             ELSE IF obj.kind # "hist"
             THEN [st EXCEPT !.errs = Append(@, Err("not_hist", n))]
             ELSE load_loop(i + 1, files, load_store(n, obj, st))

check_input(files, smp, dat) ==
    LET st0 == Blank(smp, dat) IN
    IF ~Truthy(smp)
    THEN [st0 EXCEPT !.errs = <<Err("no_samples", <<>>)>>]
    ELSE LET tcs == type_checker(smp) IN
         IF ~tcs.ok
         THEN [st0 EXCEPT !.errs = tcs.errs \o <<Err("samples_type", <<>>)>>]
         ELSE LET tcd   == type_checker(dat)
                  wrap  == Truthy(dat) /\ tcd.ok
                             /\ ~(dat.t = "str" /\ dat.v = ALL)
                  dat1  == IF wrap THEN AsList(dat) ELSE dat
                  e1    == IF Truthy(dat) THEN tcd.errs ELSE <<>>
                  e2    == IF wrap THEN data_check(1, dat1, smp) ELSE <<>>
              IN  load_loop(1, files,
                    [st0 EXCEPT !.samples = AsList(smp), !.data = dat1,
                                !.errs = e1 \o e2])

----------------------------------------------------------------------------
(* Colours.  A colour given by name is a str; a colour taken from a colour *)
(* map is the one-element tuple holding the map and the position sampled.  *)

color_order ==
    << <<"b","l","a","c","k">>, <<"r","e","d">>, <<"b","l","u","e">>,
       <<"l","i","m","e","g","r","e","e","n">>,
       <<"o","r","a","n","g","e","r","e","d">>,
       <<"m","a","g","e","n","t","a">>, <<"y","e","l","l","o","w">>,
       <<"a","q","u","a">>, <<"c","h","o","c","o","l","a","t","e">>,
       <<"d","a","r","k","v","i","o","l","e","t">> >>

GIST_RAINBOW == <<"g","i","s","t","_","r","a","i","n","b","o","w">>

pct_max == 98
pct_min == 2

\* cmap(num/den)
CmapColor(colormap, num, den) ==
    << [cmap |-> colormap, num |-> num, den |-> den] >>

Reversed(s) == [i \in 1..Len(s) |-> s[Len(s) + 1 - i]]

\* Hist1D.colorlist_gen: n positions pct_min/100 + i*(pct_max-pct_min)/(100 n)
colorlist_gen(n, colormap, reverse) ==
    LET sequence == [i \in 1..n |->
                       [num |-> pct_min * n + (i - 1) * (pct_max - pct_min),
                        den |-> 100 * n]]
        ordered  == IF reverse THEN Reversed(sequence) ELSE sequence
    IN  [i \in 1..n |-> CmapColor(colormap, ordered[i].num, ordered[i].den)]

\* assign_loop that keeps the palette up to 11 samples
RECURSIVE assign_loop_11(_, _, _, _, _, _)
assign_loop_11(i, keys, nsamples, stack, custom, st) ==
    IF i > Len(keys) THEN st
    ELSE LET source == IF Len(custom) > 0 THEN custom
                       ELSE IF nsamples > 11 \/ stack
                       THEN colorlist_gen(nsamples, GIST_RAINBOW, FALSE)
                       ELSE color_order
         IN  IF i > Len(source)
             THEN [st EXCEPT !.raised = TRUE]
             ELSE assign_loop_11(i + 1, keys, nsamples, stack, custom,
                    [st EXCEPT !.colors = DictSet(@, keys[i], source[i])])

\* Hist1D.assign_colors: custom is a list of colours, <<>> when not given;
\* raised is set when a list is indexed past its end
RECURSIVE assign_loop(_, _, _, _, _, _)
assign_loop(i, keys, nsamples, stack, custom, st) ==
    IF i > Len(keys) THEN st
    ELSE LET source == IF Len(custom) > 0 THEN custom
                       ELSE IF nsamples > 10 \/ stack
                       THEN colorlist_gen(nsamples, GIST_RAINBOW, FALSE)
                       ELSE color_order
         IN  IF i > Len(source)
             THEN [st EXCEPT !.raised = TRUE]
             ELSE assign_loop(i + 1, keys, nsamples, stack, custom,
                    [st EXCEPT !.colors = DictSet(@, keys[i], source[i])])

\* assign_colors that ignores the custom list
assign_colors_default(colors, sdict, smp, stack, custom) ==
    assign_loop(1, DictKeys(sdict), PyLen(smp), stack, <<>>,
                [colors |-> colors, raised |-> FALSE])

assign_colors(colors, sdict, smp, stack, custom) ==
    assign_loop(1, DictKeys(sdict), PyLen(smp), stack, custom,
                [colors |-> colors, raised |-> FALSE])

----------------------------------------------------------------------------
(* Hist1D.store_data *)

Falsy(meta) == meta = NoneVal \/ meta = ""

store_data(sdict, hdict, ddict, dat) ==
    IF Len(hdict) = 0 /\ Len(ddict) = 0
    THEN [raised |-> TRUE, datasize |-> 0, edges |-> <<>>, values |-> <<>>,
          names |-> <<>>, labels |-> <<>>, histolabels |-> <<>>,
          scatterlabels |-> <<>>]
    ELSE LET first_sample == IF Len(hdict) > 0 THEN hdict[1].v ELSE ddict[1].v
             isdata  == [i \in 1..Len(sdict) |-> IsDataName(sdict[i].k, dat)]
             lab(i)  == sdict[i].v.label
             scat    == SelectSeq([i \in 1..Len(sdict) |-> i],
                                  LAMBDA i : isdata[i])
             bins    == SelectSeq([i \in 1..Len(sdict) |-> i],
                                  LAMBDA i : ~isdata[i])
         IN  [raised   |-> FALSE,
              datasize |-> Len(first_sample.values),
              edges    |-> first_sample.edges,
              values   |-> [i \in 1..Len(sdict) |-> sdict[i].v.values],
              names    |-> [i \in 1..Len(sdict) |->
                              IF Falsy(sdict[i].v.name) THEN ""
                              ELSE sdict[i].v.name],
              labels   |-> [i \in 1..Len(sdict) |->
                              IF Falsy(lab(i)) THEN "" ELSE lab(i)],
              histolabels   |-> [j \in 1..Len(bins) |-> lab(bins[j])],
              scatterlabels |-> [j \in 1..Len(scat) |-> lab(scat[j])]]

----------------------------------------------------------------------------
(* Hist1D.get_stackvalues.  The result is [kind, v]: an array ("list"),    *)
(* the scalar 0.0 numpy returns for the sum of no arrays ("scalar"), or    *)
(* the ValueError numpy raises for arrays of different lengths ("raise";   *)
(* no array of the model has one bin, so none is broadcast).               *)

RECURSIVE ColumnSum(_, _, _)
ColumnSum(valueslist, h, i) ==
    IF h > Len(valueslist) THEN 0
    ELSE valueslist[h][i] + ColumnSum(valueslist, h + 1, i)

np_sum(valueslist) ==
    IF Len(valueslist) = 0 THEN [kind |-> "scalar", v |-> <<>>]
    ELSE IF \E h \in 1..Len(valueslist) :
                Len(valueslist[h]) # Len(valueslist[1])
    THEN [kind |-> "raise", v |-> <<>>]
    ELSE [kind |-> "list",
          v |-> [i \in 1..Len(valueslist[1]) |-> ColumnSum(valueslist, 1, i)]]

\* get_stackvalues that returns the first histogram whatever the list
get_stackvalues_first(listofhist) ==
    IF Len(listofhist) >= 1
    THEN [kind |-> "list", v |-> listofhist[1].values]
    ELSE np_sum(<<>>)

get_stackvalues(listofhist) ==
    IF Len(listofhist) = 1
    THEN [kind |-> "list", v |-> listofhist[1].values]
    ELSE np_sum([h \in 1..Len(listofhist) |-> listofhist[h].values])

----------------------------------------------------------------------------
(* RatioPlot.check_reference and RatioPlot.ratiovalues_calculator *)

RECURSIVE GCD(_, _)
GCD(a, b) == IF b = 0 THEN a ELSE GCD(b, a % b)

\* n/m, m # 0
Frac(n, m) == [num |-> n \div GCD(n, m), den |-> m \div GCD(n, m)]
Zero == [num |-> 0, den |-> 1]

NoCall == [kind |-> "none", v |-> <<>>]
EmptyList == [kind |-> "list", v |-> <<>>]

\* the items of sdict other than the reference, in order
Others(sdict, ref) == SelectSeq(sdict, LAMBDA it : it.k # ref)

check_reference(ref, smp, sdict, dat, ddict, hlist) ==
    LET none == [numerators |-> <<>>, denominator |-> <<>>,
                 dvals |-> EmptyList, errs |-> <<>>, raised |-> FALSE,
                 stack_in |-> <<>>, stack_out |-> NoCall]
    IN
    IF ~Truthy(ref)
    THEN [none EXCEPT !.errs = <<Err("no_reference", <<>>)>>]
    ELSE IF PyIn(ref.v, smp)
    THEN [none EXCEPT
            !.numerators  = Others(sdict, ref.v),
            !.denominator = SelectSeq(sdict, LAMBDA it : it.k = ref.v),
            !.dvals = IF DictHas(sdict, ref.v)
                      THEN [kind |-> "list",
                            v |-> DictGet(sdict, ref.v).values]
                      ELSE EmptyList]
    ELSE IF ref.v = TOTAL
    THEN IF Truthy(dat) /\ PyLen(dat) = 1
         THEN LET sv == get_stackvalues(hlist) IN
              [none EXCEPT
                 !.numerators = ddict,
                 !.dvals      = IF sv.kind = "raise" THEN EmptyList ELSE sv,
                 !.raised     = (sv.kind = "raise"),
                 !.stack_in   = hlist,
                 !.stack_out  = sv]
         ELSE [none EXCEPT !.errs = <<Err("need_one_data", <<>>)>>]
    ELSE [none EXCEPT !.errs = <<Err("reference_not_in_samples", <<>>)>>]

Min(a, b) == IF a < b THEN a ELSE b

\* ratio_of with numerator and denominator exchanged
ratio_of_swapped(vals, dv) ==
    [i \in 1..Min(Len(vals), Len(dv)) |->
        IF vals[i] # 0 THEN Frac(dv[i], vals[i]) ELSE Zero]

\* one entry of ratiovalues: zip(sample.values(), self.dvals)
ratio_of(vals, dv) ==
    [i \in 1..Min(Len(vals), Len(dv)) |->
        IF dv[i] # 0 THEN Frac(vals[i], dv[i]) ELSE Zero]

\* zip() raises TypeError on the scalar sum of no histograms
ratiovalues_calculator(nums, dv) ==
    IF Len(nums) > 0 /\ dv.kind = "scalar"
    THEN [raised |-> TRUE,
          ratiovalues |-> <<[k |-> nums[1].k, v |-> <<>>]>>]
    ELSE [raised |-> FALSE,
          ratiovalues |-> [j \in 1..Len(nums) |->
                             [k |-> nums[j].k,
                              v |-> ratio_of(nums[j].v.values, dv.v)]]]

----------------------------------------------------------------------------
(* Inputs *)

A  == <<"a">>
B  == <<"b">>
AB == <<"a", "b">>
Pool == {A, B}           \* the samples whose files vary
ArgNames == {A, B, AB}   \* the names a str argument or a data list may hold

Letters == <<"a", "b", "c", "d", "e", "f", "g", "h", "i", "j", "k", "l">>
LongList(n) == [i \in 1..n |-> <<Letters[i]>>]
AllNames == ArgNames \cup {<<Letters[i]>> : i \in 1..Len(Letters)}

SeqsUpTo(S, n) == UNION {[1..m -> S] : m \in 0..n}

RegularEdges(n) == [i \in 1..(n + 1) |-> i - 1]

Missing == [kind |-> "missing", values |-> <<>>, edges |-> <<>>,
            name |-> NoneVal, label |-> NoneVal]
NotHist == [kind |-> "nothist", values |-> <<>>, edges |-> <<>>,
            name |-> NoneVal, label |-> NoneVal]
Hist(v, e, n, l) == [kind |-> "hist", values |-> v, edges |-> e,
                     name |-> n, label |-> l]

Ones(n) == [i \in 1..n |-> 1]
Plain   == Hist(Ones(NBins), RegularEdges(NBins), "x", "X")

\* histograms of NBins bins whose contents run through 0..MaxVal from
\* every start, so that two of them meet in every pair of contents
ValueHists ==
    {Hist([i \in 1..NBins |-> (c + i) % (MaxVal + 1)],
          RegularEdges(NBins), "x", "X") : c \in 0..MaxVal}
\* a directory: the files of Pool vary over files, every other file is Plain
Disks(files) ==
    {[n \in AllNames |-> IF n \in Pool THEN f[n] ELSE Plain] :
        f \in [Pool -> files]}

SampleArgs ==
    {List(l) : l \in SeqsUpTo(Pool, MaxSamples)}
    \cup {Str(n) : n \in ArgNames}
    \cup {List(<<A, NonStr>>)}
    \cup {List(LongList(n)) : n \in {Len(color_order), Len(color_order) + 1}}

DataArgs ==
    {List(l) : l \in SeqsUpTo(ArgNames, MaxData)}
    \cup {Str(n) : n \in ArgNames \cup {ALL}}
    \cup {List(<<A, NonStr>>)}

----------------------------------------------------------------------------
(* EmptyPlot.__init__ and Hist1D.__init__: the style dictionaries.  Every  *)
(* value is written as the tuple of its text.                              *)

base_rcps ==
    << [k |-> "xaxis.labellocation", v |-> <<"right">>],
       [k |-> "yaxis.labellocation", v |-> <<"top">>],
       [k |-> "axes.labelpad",       v |-> <<"1">>],
       [k |-> "axes.titlesize",      v |-> <<"20">>],
       [k |-> "font.size",           v |-> <<"10">>],
       [k |-> "lines.linewidth",     v |-> <<"1">>],
       [k |-> "lines.marker",        v |-> <<".">>],
       [k |-> "lines.markersize",    v |-> <<"8">>] >>

hist_rcps ==
    << [k |-> "legend.handletextpad", v |-> <<"0.3">>],
       [k |-> "legend.columnspacing", v |-> <<"0.5">>],
       [k |-> "legend.labelspacing",  v |-> <<"0.1">>],
       [k |-> "legend.markerscale",   v |-> <<"1.1">>] >>

\* dict.update(other)
RECURSIVE update(_, _)
update(d, other) ==
    IF Len(other) = 0 THEN d
    ELSE update(DictSet(d, other[1].k, other[1].v), Tail(other))

\* the keys of mpl.rcParams the model names: those of base_rcps and
\* hist_rcps and two more
RcKeys ==
    Keys(base_rcps) \cup Keys(hist_rcps) \cup {"image.cmap", "legend.fontsize"}

\* mpl.rcParams before the program writes it
LibraryDefaults == [k \in RcKeys |-> <<"default">>]

\* EmptyPlot.config_rcParams
config_rcParams(params, settings_dict) ==
    [k \in RcKeys |-> IF DictHas(settings_dict, k)
                      THEN DictGet(settings_dict, k) ELSE params[k]]

\* mpl.markers.MarkerStyle.markers, as far as the model names markers
markerstyles == {<<".">>, <<"o">>, <<"s">>}

FULL   == <<"f", "u", "l", "l">>
HOLLOW == <<"h", "o", "l", "l", "o", "w">>

\* EmptyPlot.__init__: the axis titles, every one the empty str
xtitles == [i \in 1..5 |->
              [k |-> <<"xmain", "xtop", "xbot", "xleft", "xright">>[i],
               v |-> <<>>]]
ytitles == [i \in 1..5 |->
              [k |-> <<"ymain", "ytop", "ybot", "yleft", "yright">>[i],
               v |-> <<>>]]

\* the size argument's default, (6.4, 4.8)
default_size == <<"6.4", "4.8">>

\* EmptyPlot.__init__, as far as the option methods read what it sets
EmptyPlot_init ==
    /\ figsize' = default_size
    /\ xtitles_dict' = xtitles
    /\ ytitles_dict' = ytitles
    /\ mastersize' = DictGet(base_rcps, "axes.titlesize")
    /\ fontsize' = <<"15">>

----------------------------------------------------------------------------
(* State *)

NoArgs == [samples |-> List(<<>>), data |-> List(<<>>),
           colors |-> List(<<>>), colormap |-> Str(<<>>), reverse |-> FALSE,
           shape |-> None, gridstring |-> Str(<<>>), marker |-> None,
           markersize |-> NoInt, legendcols |-> NoInt, rcp_kw |-> <<>>,
           ylims |-> <<>>, step |-> 0, edges |-> FALSE, ratio |-> FALSE]

\* no object yet: every field as __init__ finds it
Fresh ==
    /\ pc = "new"
    /\ cls = ""
    /\ raised_in = ""
    /\ op = ""
    /\ errs = <<>>
    /\ call = NoArgs
    /\ samples = List(<<>>)
    /\ data = List(<<>>)
    /\ is_stack = FALSE
    /\ errors = None
    /\ samples_dict = <<>>
    /\ histos_dict = <<>>
    /\ histos_list = <<>>
    /\ data_dict = <<>>
    /\ plot_types = <<>>
    /\ colors_dict = <<>>
    /\ names = <<>>
    /\ labels = <<>>
    /\ histolabels = <<>>
    /\ scatterlabels = <<>>
    /\ datasize = 0
    /\ edges = <<>>
    /\ values = <<>>
    /\ reference = None
    /\ numerators = <<>>
    /\ denominator = <<>>
    /\ dvals = EmptyList
    /\ ratiovalues = <<>>
    /\ shape = Unset
    /\ need_grid = FALSE
    /\ gridaxis = Unset
    /\ gridline = Unset
    /\ legend_ncols = 0
    /\ rcps = <<>>
    /\ rcParams = LibraryDefaults
    /\ hist = <<>>
    /\ xsum = <<>>
    /\ ysum = <<>>
    /\ user_cmap = Unset
    /\ custom_ylims = FALSE
    /\ ylims = <<>>
    /\ ystep = 0
    /\ ybotrange = <<>>
    /\ ybotlabels = <<>>
    /\ bars = <<>>
    /\ figsize = Unset
    /\ xtitles_dict = <<>>
    /\ ytitles_dict = <<>>
    /\ fontsize = Unset
    /\ mastersize = Unset
    /\ spacing = NoInt
    /\ stretch = NoInt
    /\ pos_err = <<>>
    /\ neg_err = <<>>
    /\ data_labels = <<>>
    /\ nvariables = 0
    /\ center = 0
    /\ use_custom_range = FALSE
    /\ rangelist = <<>>
    /\ user_xmin = 0
    /\ user_xmax = 0
    /\ labelside = Unset
    /\ onesigmacolor = Str(Unset)
    /\ twosigmacolor = Str(Unset)
    /\ errorbar_kw = <<>>
    /\ xlim = <<>>
    /\ xticks = <<>>

InitWith(disks) ==
    /\ disk \in disks
    /\ Fresh
    /\ stack_in = <<>>
    /\ stack_out = NoCall

(* Hist1D.__init__ / RatioPlot.__init__: the whole constructor.  When a   *)
(* method raises, the fields keep the values they had at that point and   *)
(* no object is returned.                                                  *)
ConstructWith(c, smp, dat, errors_arg, stack, ref) ==
    LET ci == check_input(disk, smp, dat)
        ac == assign_colors(<<>>, ci.samples_dict, ci.samples, stack, <<>>)
        sd == store_data(ci.samples_dict, ci.histos_dict, ci.data_dict,
                         ci.data)
        base_ok == ~ac.raised /\ ~sd.raised
        ratio == c = "RatioPlot" /\ base_ok
        cr == check_reference(ref, ci.samples, ci.samples_dict, ci.data,
                              ci.data_dict, ci.histos_list)
        rc == ratiovalues_calculator(cr.numerators, cr.dvals)
    IN
    /\ pc = "new"
    /\ cls' = c
    /\ op' = "init"
    /\ call' = [NoArgs EXCEPT !.samples = smp, !.data = dat]
    /\ UNCHANGED disk
    /\ samples' = ci.samples
    /\ data' = ci.data
    /\ is_stack' = stack
    /\ errors' = errors_arg
    /\ samples_dict' = ci.samples_dict
    /\ histos_dict' = ci.histos_dict
    /\ histos_list' = ci.histos_list
    /\ data_dict' = ci.data_dict
    /\ plot_types' = ci.plot_types
    /\ colors_dict' = ac.colors
    /\ IF ~ac.raised /\ ~sd.raised
       THEN /\ names' = sd.names
            /\ labels' = sd.labels
            /\ histolabels' = sd.histolabels
            /\ scatterlabels' = sd.scatterlabels
            /\ datasize' = sd.datasize
            /\ edges' = sd.edges
            /\ values' = sd.values
       ELSE UNCHANGED meta_vars
    /\ IF ratio
       THEN /\ reference' = ref
            /\ numerators' = cr.numerators
            /\ denominator' = cr.denominator
            /\ dvals' = cr.dvals
            /\ stack_in' = cr.stack_in
            /\ stack_out' = cr.stack_out
            /\ ratiovalues' = IF cr.raised THEN <<>> ELSE rc.ratiovalues
            /\ errs' = ci.errs \o cr.errs
       ELSE /\ UNCHANGED <<ratio_vars, stack_vars>>
            /\ errs' = ci.errs
    /\ shape' = IF stack THEN FULL ELSE HOLLOW
    /\ need_grid' = FALSE
    /\ legend_ncols' = 1
    /\ rcps' = update(base_rcps, hist_rcps)
    /\ UNCHANGED <<gridaxis, gridline, rcParams, proj_vars, axis_vars, bars,
                   pull_vars>>
    /\ EmptyPlot_init
    /\ IF ratio /\ ~cr.raised /\ ~rc.raised
       THEN spacing' = IntArg(0) /\ stretch' = IntArg(4)
       ELSE UNCHANGED <<spacing, stretch>>
    /\ raised_in' = IF ac.raised THEN "assign_colors"
                    ELSE IF sd.raised THEN "store_data"
                    ELSE IF ratio /\ cr.raised THEN "get_stackvalues"
                    ELSE IF ratio /\ rc.raised THEN "ratiovalues_calculator"
                    ELSE ""
    /\ pc' = IF raised_in' = "" THEN "ready" ELSE "raised"

\* the constructor called without the errors argument
Construct(c, smp, dat, stack, ref) ==
    ConstructWith(c, smp, dat, None, stack, ref)

----------------------------------------------------------------------------
(* Hist1D.color_options *)

RED     == <<"r", "e", "d">>
BLUE    == <<"b", "l", "u", "e">>
VIRIDIS == <<"v", "i", "r", "i", "d", "i", "s">>
NOPE    == <<"n", "o", "p", "e">>

\* plt.colormaps(), as far as the model names colour maps
colormaps == {VIRIDIS, GIST_RAINBOW}

ColorLists ==
    {List(l) : l \in SeqsUpTo({RED, BLUE}, MaxSamples + 1)}
    \cup {Str(RED), List(<<RED, NonStr>>)}
    \cup {List(Reversed(color_order)),
          List(Append(Reversed(color_order), RED))}

ColorArgs ==
    {[colors |-> c, colormap |-> Str(<<>>), reverse |-> FALSE] :
        c \in ColorLists}
    \cup {[colors |-> c, colormap |-> Str(m), reverse |-> r] :
            c \in {List(<<>>), List(<<RED>>), List(<<RED, NonStr>>)},
            m \in {VIRIDIS, NOPE}, r \in BOOLEAN}

\* color_options without the length check
color_options_nocheck(colors, colormap, reverse) ==
    LET tc   == type_checker(colors)
        keep == [colors |-> colors_dict, raised |-> FALSE]
    IN  IF Truthy(colors) /\ tc.ok
        THEN [ac |-> assign_colors(colors_dict, samples_dict, samples,
                                   is_stack, AsList(colors).v),
              errs |-> <<>>]
        ELSE [ac |-> keep, errs |-> <<>>]

\* the effect of color_options on colors_dict and what it logs
color_options_result(colors, colormap, reverse) ==
    LET tc   == type_checker(colors)
        keep == [colors |-> colors_dict, raised |-> FALSE]
    IN  IF Truthy(colors) /\ tc.ok
        THEN IF PyLen(AsList(colors)) # PyLen(samples)
             THEN [ac |-> keep, errs |-> <<Err("length_mismatch", <<>>)>>]
             ELSE [ac |-> assign_colors(colors_dict, samples_dict, samples,
                                        is_stack, AsList(colors).v),
                   errs |-> <<>>]
        ELSE LET e1 == IF Truthy(colors) THEN tc.errs ELSE <<>> IN
             IF Truthy(colormap) /\ type_checker(colormap).ok
             THEN IF colormap.v \in colormaps
                  THEN [ac |-> assign_colors(colors_dict, samples_dict,
                                  samples, is_stack,
                                  colorlist_gen(PyLen(samples), colormap.v,
                                                reverse)),
                        errs |-> e1]
                  ELSE [ac |-> keep,
                        errs |-> e1 \o <<Err("invalid_colormap", <<>>)>>]
             ELSE [ac |-> keep, errs |-> e1]

color_options(colors, colormap, reverse) ==
    LET r == color_options_result(colors, colormap, reverse) IN
    /\ pc = "ready"
    /\ op' = "color_options"
    /\ call' = [call EXCEPT !.colors = colors, !.colormap = colormap,
                            !.reverse = reverse]
    /\ colors_dict' = r.ac.colors
    /\ errs' = IF r.ac.raised THEN r.errs \o <<Err("IndexError", <<>>)>>
               ELSE r.errs
    /\ UNCHANGED <<fig_vars, pull_vars>>
    /\ UNCHANGED <<disk, pc, cls, raised_in, store_vars, meta_vars,
                   ratio_vars, stack_vars, opt_vars, proj_vars, axis_vars,
                   bars>>

----------------------------------------------------------------------------
(* EmptyPlot.gridstring_converter *)

linestyles == << <<"-">>, <<"-", "-">>, <<"-", ".">>, <<":">> >>

InList(x, l) == \E i \in 1..Len(l) : l[i] = x

\* string[n:] and string[:n]
From(string, n) == SubSeq(string, n + 1, Len(string))
UpTo(string, n) == SubSeq(string, 1, IF n < Len(string) THEN n ELSE Len(string))

X    == <<"x">>
Y    == <<"y">>
BOTH == <<"b", "o", "t", "h">>

\* gridstring_converter that does not look at the line style
gridstring_converter_anyline(string, axis, line) ==
    IF string[1] = "x" \/ string[1] = "y"
    THEN [gridaxis |-> <<string[1]>>, gridline |-> From(string, 1),
          errs |-> <<>>]
    ELSE IF UpTo(string, 4) = BOTH
    THEN [gridaxis |-> UpTo(string, 4), gridline |-> From(string, 4),
          errs |-> <<>>]
    ELSE [gridaxis |-> axis, gridline |-> line,
          errs |-> <<Err("invalid_gridstring", string)>>]

\* string is a non-empty str; axis and line are the attributes before the
\* call
gridstring_converter(string, axis, line) ==
    IF (string[1] = "x" \/ string[1] = "y")
       /\ InList(From(string, 1), linestyles)
    THEN [gridaxis |-> <<string[1]>>, gridline |-> From(string, 1),
          errs |-> <<>>]
    ELSE IF UpTo(string, 4) = BOTH /\ InList(From(string, 4), linestyles)
    THEN [gridaxis |-> UpTo(string, 4), gridline |-> From(string, 4),
          errs |-> <<>>]
    ELSE [gridaxis |-> axis, gridline |-> line,
          errs |-> <<Err("invalid_gridstring", string)>>]

----------------------------------------------------------------------------
(* Hist1D.plot_options *)

\* the shape branch that accepts 'full' on every plot
shape_option_anyfull(arg, old, stack, hdict) ==
    IF ~Truthy(arg) THEN [shape |-> old, errs |-> <<>>]
    ELSE IF arg.v = FULL \/ arg.v = HOLLOW
    THEN [shape |-> arg.v, errs |-> <<>>]
    ELSE [shape |-> old, errs |-> <<Err("bad_shape", arg.v)>>]

\* the shape branch: arg is the shape argument, old is self.shape
shape_option(arg, old, stack, hdict) ==
    IF ~Truthy(arg) THEN [shape |-> old, errs |-> <<>>]
    ELSE IF arg.v = FULL /\ ~stack /\ Len(hdict) > 1
    THEN [shape |-> old, errs |-> <<Err("full_not_stack", arg.v)>>]
    ELSE IF arg.v = FULL \/ arg.v = HOLLOW
    THEN [shape |-> arg.v, errs |-> <<>>]
    ELSE [shape |-> old, errs |-> <<Err("bad_shape", arg.v)>>]

\* the merge that takes every key of rcp_kw
rcps_update_all(d, rcp_kw) == update(d, rcp_kw)

\* self.rcps.update({k: v for k, v in rcp_kw.items() if k in mpl.rcParams})
rcps_update(d, rcp_kw) ==
    update(d, SelectSeq(rcp_kw, LAMBDA it : it.k \in RcKeys))

\* the marker and markersize branches
marker_options(d, marker, markersize) ==
    LET d1 == IF Truthy(marker) /\ marker.v \in markerstyles
              THEN DictSet(d, "lines.marker", marker.v) ELSE d
    IN  IF markersize.t = "int" /\ markersize.v # 0
        THEN DictSet(d1, "lines.markersize", <<ToString(markersize.v)>>)
        ELSE d1

\* the last branch left out: colours are never reassigned
hollow_stack_colors_never(arg, colors, sdict, smp, stack) ==
    [colors |-> colors, raised |-> FALSE]

\* the last branch: a stack plot asked to be hollow takes color_order
hollow_stack_colors(arg, colors, sdict, smp, stack) ==
    IF stack /\ arg.t = "str" /\ arg.v = HOLLOW
       /\ PyLen(smp) <= Len(color_order)
    THEN assign_colors(colors, sdict, smp, stack, color_order)
    ELSE [colors |-> colors, raised |-> FALSE]

plot_options(shp, gridstring, marker, markersize, legendcols, rcp_kw) ==
    LET so == shape_option(shp, shape, is_stack, histos_dict)
        gc == IF Truthy(gridstring)
              THEN gridstring_converter(gridstring.v, gridaxis, gridline)
              ELSE [gridaxis |-> gridaxis, gridline |-> gridline,
                    errs |-> <<>>]
        merged == rcps_update(rcps, rcp_kw)
        hc == hollow_stack_colors(shp, colors_dict, samples_dict, samples,
                                  is_stack)
    IN
    /\ pc = "ready"
    /\ cls \in {"Hist1D", "RatioPlot"}
    /\ op' = "plot_options"
    /\ call' = [call EXCEPT !.shape = shp, !.gridstring = gridstring,
                            !.marker = marker, !.markersize = markersize,
                            !.legendcols = legendcols, !.rcp_kw = rcp_kw]
    /\ shape' = so.shape
    /\ gridaxis' = gc.gridaxis
    /\ gridline' = gc.gridline
    /\ need_grid' = (need_grid \/ Truthy(gridstring))
    /\ rcParams' = config_rcParams(rcParams, merged)
    /\ rcps' = marker_options(merged, marker, markersize)
    /\ legend_ncols' = IF legendcols.t = "int" /\ legendcols.v # 0
                       THEN legendcols.v ELSE legend_ncols
    /\ colors_dict' = hc.colors
    /\ errs' = so.errs \o gc.errs
    /\ UNCHANGED <<fig_vars, pull_vars>>
    /\ UNCHANGED <<disk, pc, cls, raised_in, store_vars, meta_vars,
                   ratio_vars, stack_vars, proj_vars, axis_vars, bars>>

----------------------------------------------------------------------------
(* ProjectionPlot.  obj is a two-dimensional histogram [values, edges]:    *)
(* values[i][j] is the content of x bin i and y bin j.                     *)

RECURSIVE SumSeq(_)
SumSeq(q) == IF Len(q) = 0 THEN 0 ELSE q[1] + SumSeq(Tail(q))

\* ProjectionPlot.store_data: the sums of the data frame along its two axes
projection_store_data(obj) ==
    LET m == obj.values IN
    [xsum  |-> [j \in 1..Len(m[1]) |-> SumSeq([i \in 1..Len(m) |-> m[i][j]])],
     ysum  |-> [i \in 1..Len(m) |-> SumSeq(m[i])],
     edges |-> obj.edges]

\* ProjectionPlot.__init__
NewProjection(obj) ==
    LET sd == projection_store_data(obj) IN
    /\ pc = "new"
    /\ pc' = "ready"
    /\ cls' = "ProjectionPlot"
    /\ op' = "init"
    /\ errs' = <<>>
    /\ rcps' = base_rcps
    /\ hist' = obj
    /\ user_cmap' = VIRIDIS
    /\ rcParams' = [rcParams EXCEPT !["image.cmap"] = VIRIDIS]
    /\ need_grid' = FALSE
    /\ xsum' = sd.xsum
    /\ ysum' = sd.ysum
    /\ edges' = sd.edges
    /\ UNCHANGED <<disk, raised_in, call, store_vars, colors_dict, names,
                   labels, histolabels, scatterlabels, datasize, values,
                   ratio_vars, stack_vars, shape, gridaxis, gridline,
                   legend_ncols, axis_vars, bars, spacing, stretch,
                   pull_vars>>
    /\ EmptyPlot_init

\* ProjectionPlot.plot_options
projection_plot_options(gridstring, rcp_kw) ==
    LET gc == IF Truthy(gridstring)
              THEN gridstring_converter(gridstring.v, gridaxis, gridline)
              ELSE [gridaxis |-> gridaxis, gridline |-> gridline,
                    errs |-> <<>>]
        merged == rcps_update(rcps, rcp_kw)
    IN
    /\ pc = "ready"
    /\ cls = "ProjectionPlot"
    /\ op' = "plot_options"
    /\ call' = [call EXCEPT !.gridstring = gridstring, !.rcp_kw = rcp_kw]
    /\ rcps' = merged
    /\ rcParams' = config_rcParams(rcParams, merged)
    /\ gridaxis' = gc.gridaxis
    /\ gridline' = gc.gridline
    /\ need_grid' = (need_grid \/ Truthy(gridstring))
    /\ errs' = gc.errs
    /\ UNCHANGED <<fig_vars, pull_vars>>
    /\ UNCHANGED <<disk, pc, cls, raised_in, store_vars, colors_dict,
                   meta_vars, ratio_vars, stack_vars, shape, legend_ncols,
                   proj_vars, axis_vars, bars>>

----------------------------------------------------------------------------
(* RatioPlot.custom_yaxis.  Axis limits, steps and ticks are numbers of    *)
(* hundredths.  The limits and steps of the model are multiples of 0.25,   *)
(* which a float holds exactly, so that np.arange and the rounding of the  *)
(* format specifications are exact.  A tick label is [blank, decimals,     *)
(* hundredths]: the number of decimals it is written with and the number   *)
(* it shows.                                                               *)

Abs(n) == IF n < 0 THEN 0 - n ELSE n

\* np.arange(start, stop, step) for step > 0
arange(start, stop, step) ==
    LET n == IF stop > start THEN (stop - start + step - 1) \div step ELSE 0
    IN  [i \in 1..n |-> start + (i - 1) * step]

\* the multiple of unit nearest to h, the even one of two equally near
RoundHalfEven(h, unit) ==
    LET q == h \div unit
        r == h % unit
    IN  IF 2 * r < unit THEN q * unit
        ELSE IF 2 * r > unit THEN (q + 1) * unit
        ELSE IF q % 2 = 0 THEN q * unit ELSE (q + 1) * unit

\* f'{x:.0f}', f'{x:.1f}', f'{x:.2f}'
Format(h, decimals) ==
    [blank |-> FALSE, decimals |-> decimals,
     hundredths |-> RoundHalfEven(h, IF decimals = 0 THEN 100
                                     ELSE IF decimals = 1 THEN 10 ELSE 1)]

BlankLabel == [blank |-> TRUE, decimals |-> 0, hundredths |-> 0]

\* the two digits after the point of f'{x:.2f}'
d1(h) == (Abs(h) % 100) \div 10
d2(h) == Abs(h) % 10

\* the scan that never asks for two decimals
label_decimals_coarse(ticks) ==
    LET inner == {i \in 1..Len(ticks) : 1 < i /\ i < Len(ticks)}
    IN  IF \E i \in inner : d1(ticks[i]) # 0 THEN 1 ELSE 0

\* the scan of temprange[1:-1] for need2 and need1
label_decimals(ticks) ==
    LET inner == {i \in 1..Len(ticks) : 1 < i /\ i < Len(ticks)}
    IN  IF \E i \in inner : d2(ticks[i]) # 0 THEN 2
        ELSE IF \E i \in inner : d1(ticks[i]) # 0 THEN 1
        ELSE 0

\* ylims is a list of numbers, step a number > 0
custom_yaxis(lims, step, show_edges) ==
    LET ticks == arange(lims[1], lims[Len(lims)] + step, step)
        dec   == label_decimals(ticks)
        full  == [i \in 1..Len(ticks) |-> Format(ticks[i], dec)]
    IN
    /\ pc = "ready"
    /\ cls = "RatioPlot"
    /\ op' = "ratio_options"
    /\ call' = [call EXCEPT !.ylims = lims, !.step = step,
                            !.edges = show_edges]
    /\ custom_ylims' = TRUE
    /\ ylims' = lims
    /\ ystep' = step
    /\ ybotrange' = ticks
    /\ IF show_edges
       THEN ybotlabels' = full /\ errs' = <<>>
       ELSE IF Len(ticks) = 0
       THEN ybotlabels' = full /\ errs' = <<Err("IndexError", <<>>)>>
       ELSE /\ ybotlabels' = [i \in 1..Len(ticks) |->
                                IF i = 1 \/ i = Len(ticks) THEN BlankLabel
                                ELSE full[i]]
            /\ errs' = <<>>
    /\ UNCHANGED <<fig_vars, pull_vars>>
    /\ UNCHANGED <<disk, pc, cls, raised_in, store_vars, colors_dict,
                   meta_vars, ratio_vars, stack_vars, opt_vars, proj_vars,
                   bars>>

\* RatioPlot.ratio_options
ratio_options(lims, step, show_edges) == custom_yaxis(lims, step, show_edges)

----------------------------------------------------------------------------
(* Hist1D.histbins_errs.  The numbers handed to ax.bar are numbers of      *)
(* hundredths, rounded down, or nan: [nan, x].                             *)

HIST     == <<"h", "i", "s", "t">>
DATA     == <<"d", "a", "t", "a">>

Centi(v) == 100 * v
Num(x)   == [nan |-> FALSE, x |-> x]
NaN      == [nan |-> TRUE, x |-> 0]

\* np.sqrt(v) for v >= 0
sqrt(v) == CHOOSE r \in 0..Centi(v) :
               r * r <= Centi(Centi(v)) /\ Centi(Centi(v)) < (r + 1) * (r + 1)

\* heights and _bottom of one bin; 0/0 is nan in numpy
bin_band(v, ratio) ==
    IF ratio
    THEN IF v = 0 THEN [bottom |-> NaN, height |-> NaN]
         ELSE [bottom |-> Num(Centi(1) - sqrt(v) \div v),
               height |-> Num(2 * (sqrt(v) \div v))]
    ELSE [bottom |-> Num(Centi(v) - sqrt(v)), height |-> Num(2 * sqrt(v))]

\* the arguments of one ax.bar call
bar_of(vals, ratio) ==
    [bottom  |-> [i \in 1..Len(vals) |-> bin_band(vals[i], ratio).bottom],
     heights |-> [i \in 1..Len(vals) |-> bin_band(vals[i], ratio).height]]

\* the stacked branch taken as the other one: a bar for every histogram
stack_bars_each(histlist, ratio) ==
    [drawn |-> [k \in 1..Len(histlist) |-> bar_of(histlist[k].values, ratio)],
     errs |-> <<>>, stack_in |-> stack_in, stack_out |-> stack_out]

\* the stacked branch: one bar on the total height
stack_bars(histlist, ratio) ==
    LET total == get_stackvalues(histlist) IN
    IF total.kind = "raise"
    THEN [drawn |-> <<>>, errs |-> <<Err("ValueError", <<>>)>>,
          stack_in |-> histlist, stack_out |-> total]
    ELSE [drawn |-> <<bar_of(total.v, ratio)>>, errs |-> <<>>,
          stack_in |-> histlist, stack_out |-> total]

\* the other branch: a bar for every histogram, up to the first one whose
\* bins are not those of _centers, on which ax.bar raises
RECURSIVE each_bars(_, _, _, _)
each_bars(k, histlist, ratio, drawn) ==
    IF k > Len(histlist)
    THEN [drawn |-> drawn, errs |-> <<>>,
          stack_in |-> stack_in, stack_out |-> stack_out]
    ELSE IF Len(histlist[k].values) # Len(histlist[1].values)
    THEN [drawn |-> drawn, errs |-> <<Err("ValueError", <<>>)>>,
          stack_in |-> stack_in, stack_out |-> stack_out]
    ELSE each_bars(k + 1, histlist, ratio,
                   Append(drawn, bar_of(histlist[k].values, ratio)))

\* called by hist_plot (ratio=False) and by RatioPlot.bot_plot (ratio=True)
\* when errors is 'hist' or 'all'
histbins_errs(ratio) ==
    LET histlist == [k \in 1..Len(histos_dict) |-> histos_dict[k].v]
        r == IF Len(histlist) = 0
             THEN [drawn |-> <<>>, errs |-> <<Err("IndexError", <<>>)>>,
                   stack_in |-> stack_in, stack_out |-> stack_out]
             ELSE IF is_stack THEN stack_bars(histlist, ratio)
             ELSE each_bars(1, histlist, ratio, <<>>)
    IN
    /\ pc = "ready"
    /\ cls \in {"Hist1D", "RatioPlot"}
    /\ ratio => cls = "RatioPlot"
    /\ errors.t = "str" /\ errors.v \in {HIST, ALL}
    /\ op' = "histbins_errs"
    /\ call' = [call EXCEPT !.ratio = ratio]
    /\ bars' = r.drawn
    /\ errs' = r.errs
    /\ stack_in' = r.stack_in
    /\ stack_out' = r.stack_out
    /\ UNCHANGED <<fig_vars, pull_vars>>
    /\ UNCHANGED <<disk, pc, cls, raised_in, store_vars, colors_dict,
                   meta_vars, ratio_vars, opt_vars, proj_vars, axis_vars>>

----------------------------------------------------------------------------
(* Spec: Hist1D objects built from every enumerated samples and data       *)
(* argument, over directories whose files may be missing or hold something *)
(* else than a histogram; a few colour requests follow.                    *)

LoadFiles == {Missing, NotHist, Plain}

FewColorArgs ==
    {[colors |-> c, colormap |-> Str(m), reverse |-> FALSE] :
        c \in {List(<<>>), List(<<RED, BLUE>>)}, m \in {<<>>, VIRIDIS}}

Init == InitWith(Disks(LoadFiles))

NewHist1D ==
    \E smp \in SampleArgs, dat \in DataArgs, stack \in BOOLEAN :
        Construct("Hist1D", smp, dat, stack, None)

FewColorOptions ==
    \E a \in FewColorArgs : color_options(a.colors, a.colormap, a.reverse)

Next == NewHist1D \/ FewColorOptions

Spec == Init /\ [][Next]_vars

----------------------------------------------------------------------------
(* SpecColor: every enumerated colour request on Hist1D objects built     *)
(* from a few samples lists (short, repeated, of 10 and of 11 names).     *)

FewSampleArgs ==
    {List(<<A>>), List(<<A, B>>), List(<<B, B, A>>)}
    \cup {List(LongList(n)) : n \in {Len(color_order), Len(color_order) + 1}}

FewDataArgs == {List(<<>>), Str(ALL), Str(B)}

InitColor == InitWith(Disks(LoadFiles))

NewHist1DFew ==
    \E smp \in FewSampleArgs, dat \in FewDataArgs, stack \in BOOLEAN :
        Construct("Hist1D", smp, dat, stack, None)

ColorOptions ==
    \E a \in ColorArgs : color_options(a.colors, a.colormap, a.reverse)

NextColor == NewHist1DFew \/ ColorOptions

SpecColor == InitColor /\ [][NextColor]_vars

----------------------------------------------------------------------------
(* SpecRatio: RatioPlot objects over directories whose two varying files  *)
(* hold a histogram of NBins bins, a histogram with one more bin, or      *)
(* nothing.                                                                *)

RatioFiles ==
    ValueHists
    \cup {Hist(Ones(NBins + 1), RegularEdges(NBins + 1), "x", "X"), Missing}

RatioSampleArgs ==
    {List(<<A>>), List(<<A, B>>), List(<<B, A>>), List(<<A, B, AB>>)}

RatioDataArgs == {List(<<>>), Str(A), Str(ALL), List(<<A, B>>)}

ReferenceArgs == {None, Str(A), Str(B), Str(TOTAL), Str(NOPE)}

InitRatio == InitWith(Disks(RatioFiles))

NewRatioPlot ==
    \E smp \in RatioSampleArgs, dat \in RatioDataArgs, ref \in ReferenceArgs :
        Construct("RatioPlot", smp, dat, FALSE, ref)

OneColorOption == color_options(List(<<RED, BLUE>>), Str(<<>>), FALSE)

NextRatio == NewRatioPlot \/ OneColorOption

SpecRatio == InitRatio /\ [][NextRatio]_vars

----------------------------------------------------------------------------
(* SpecStack: get_stackvalues applied once to a list of up to MaxStackLen *)
(* histograms.                                                             *)

StackHists ==
    ValueHists \cup {Hist(Ones(NBins + 1), RegularEdges(NBins + 1), "x", "X")}

StackLists == SeqsUpTo(StackHists, MaxStackLen)

InitStack ==
    /\ disk \in Disks({Plain})
    /\ Fresh
    /\ stack_in \in StackLists
    /\ stack_out = NoCall

StackValues ==
    /\ stack_out = NoCall
    /\ stack_out' = get_stackvalues(stack_in)
    /\ UNCHANGED <<fig_vars, pull_vars>>
    /\ UNCHANGED <<disk, pc, cls, raised_in, op, errs, call, store_vars,
                   colors_dict, meta_vars, ratio_vars, stack_in, opt_vars,
                   proj_vars, axis_vars, bars>>

NextStack == StackValues

SpecStack == InitStack /\ [][NextStack]_vars

----------------------------------------------------------------------------
(* SpecGrid: grid strings handed to plot_options of a Hist1D and of a      *)
(* ProjectionPlot.                                                         *)

LineChars == {"-", ".", ":"}

\* x, both, z or nothing, followed by up to MaxGridLen line characters, and
\* a few more strings
GridStrings ==
    ({a \o t : a \in {X, BOTH, <<"z">>, <<>>},
               t \in SeqsUpTo(LineChars, MaxGridLen)} \ {<<>>})
    \cup {Y, Y \o <<":">>, Y \o <<"-", "-">>, Y \o <<"-", ".">>,
          Y \o <<"-">>, <<"x", "@">>, <<"x", "x", "-">>, <<"x", "y", ":">>,
          <<"b", "o", "t", "-">>, <<"X", ":">>}

\* a two-dimensional histogram of NBins x NBins bins
Hist2D ==
    [values |-> [i \in 1..NBins |-> [j \in 1..NBins |-> (i + j) % (MaxVal + 1)]],
     edges  |-> RegularEdges(NBins)]

InitGrid == InitWith(Disks({Plain}))

NewHist1DGrid ==
    Construct("Hist1D", List(<<A, B>>), List(<<>>), FALSE, None)

NewProjectionPlot == NewProjection(Hist2D)

GridOptions ==
    \E g \in GridStrings \cup {<<>>} :
        plot_options(None, Str(g), None, NoInt, NoInt, <<>>)

ProjectionGridOptions ==
    \E g \in GridStrings \cup {<<>>} : projection_plot_options(Str(g), <<>>)

NextGrid ==
    NewHist1DGrid \/ NewProjectionPlot \/ GridOptions \/ ProjectionGridOptions

SpecGrid == InitGrid /\ [][NextGrid]_vars

----------------------------------------------------------------------------
(* SpecOptions: shape and legend requests on Hist1D objects of one, two,   *)
(* ten and eleven samples, stacked or not; colour requests are the ones    *)
(* that name neither colours nor a colour map.                             *)

OptionSampleArgs ==
    {List(<<A>>), List(<<A, B>>)}
    \cup {List(LongList(n)) : n \in {Len(color_order), Len(color_order) + 1}}

OptionDataArgs == {List(<<>>), Str(B)}

ShapeArgs == {None, Str(<<>>), Str(FULL), Str(HOLLOW), Str(NOPE)}

LegendArgs == {NoInt} \cup {IntArg(n) : n \in (0 - MaxCols)..MaxCols}

\* one option per call, or a shape together with a column count
OptionArgs ==
    {[shape |-> sh, legendcols |-> NoInt] : sh \in ShapeArgs}
    \cup {[shape |-> None, legendcols |-> n] : n \in LegendArgs}
    \cup {[shape |-> Str(sh), legendcols |-> IntArg(MaxCols)] :
            sh \in {FULL, HOLLOW}}

InitOptions == InitWith(Disks({Plain}))

NewHist1DOptions ==
    \E smp \in OptionSampleArgs, dat \in OptionDataArgs, stack \in BOOLEAN :
        Construct("Hist1D", smp, dat, stack, None)

ShapeLegendOptions ==
    \E a \in OptionArgs :
        plot_options(a.shape, Str(<<>>), None, NoInt, a.legendcols, <<>>)

NoColorOptions == color_options(List(<<>>), Str(<<>>), FALSE)

NextOptions == NewHist1DOptions \/ ShapeLegendOptions \/ NoColorOptions

SpecOptions == InitOptions /\ [][NextOptions]_vars

----------------------------------------------------------------------------
(* SpecStyle: style overrides, markers and marker sizes handed to          *)
(* plot_options of a Hist1D and of a ProjectionPlot.                       *)

\* a key of self.rcps, a key of mpl.rcParams that self.rcps does not hold,
\* and a key mpl.rcParams does not know
StyleKeys == <<"font.size", "legend.fontsize", "foo">>

StyleValues == {<<"7">>, <<"9">>}

\* every dict over StyleKeys: each key left out or given one of the values
StyleDicts ==
    {LET picked == SelectSeq([i \in 1..Len(StyleKeys) |-> i],
                             LAMBDA i : f[i] # <<>>)
     IN  [j \in 1..Len(picked) |-> [k |-> StyleKeys[picked[j]],
                                    v |-> f[picked[j]]]] :
        f \in [1..Len(StyleKeys) -> StyleValues \cup {<<>>}]}

MarkerArgs == {None, Str(<<"o">>), Str(<<"q">>)}

MarkerSizeArgs == {NoInt, IntArg(0), IntArg(5)}

InitStyle == InitWith(Disks({Plain}))

NewHist1DStyle == Construct("Hist1D", List(<<A>>), List(<<>>), FALSE, None)

NewProjectionStyle == NewProjection(Hist2D)

StyleOptions ==
    \E m \in StyleDicts : plot_options(None, Str(<<>>), None, NoInt, NoInt, m)

MarkerOptions ==
    \E mk \in MarkerArgs, ms \in MarkerSizeArgs :
        plot_options(None, Str(<<>>), mk, ms, NoInt, <<>>)

ProjectionStyleOptions ==
    \E m \in StyleDicts : projection_plot_options(Str(<<>>), m)

NextStyle ==
    \/ NewHist1DStyle
    \/ NewProjectionStyle
    \/ StyleOptions
    \/ MarkerOptions
    \/ ProjectionStyleOptions

SpecStyle == InitStyle /\ [][NextStyle]_vars

----------------------------------------------------------------------------
(* SpecAxis: axis limits and steps handed to ratio_options of a RatioPlot. *)

Hundredths(quarters) == 25 * quarters

AxisLimits == {Hundredths(q) : q \in (0 - 2)..MaxTick}

AxisSteps == {Hundredths(q) : q \in 1..MaxTick}

InitAxis == InitWith(Disks({Plain}))

NewRatioPlotAxis ==
    Construct("RatioPlot", List(<<A, B>>), List(<<>>), FALSE, Str(A))

RatioOptions ==
    \E lo \in AxisLimits, hi \in AxisLimits, step \in AxisSteps,
       show_edges \in BOOLEAN :
        ratio_options(<<lo, hi>>, step, show_edges)

NextAxis == NewRatioPlotAxis \/ RatioOptions

SpecAxis == InitAxis /\ [][NextAxis]_vars

----------------------------------------------------------------------------
(* SpecBand: the error bars of Hist1D and RatioPlot objects of two samples *)
(* whose files hold histograms of NBins bins or of one more bin.           *)

BandSampleArgs == {List(<<A, B>>), List(<<B>>)}

BandDataArgs == {List(<<>>), Str(B)}

ErrorsArgs == {None, Str(HIST), Str(ALL), Str(DATA)}

InitBand == InitWith(Disks(StackHists))

NewHist1DBand ==
    \E smp \in BandSampleArgs, dat \in BandDataArgs, e \in ErrorsArgs,
       stack \in BOOLEAN :
        ConstructWith("Hist1D", smp, dat, e, stack, None)

NewRatioPlotBand ==
    \E smp \in BandSampleArgs, e \in ErrorsArgs, stack \in BOOLEAN :
        ConstructWith("RatioPlot", smp, List(<<>>), e, stack, Str(B))

ErrorBars == \E ratio \in BOOLEAN : histbins_errs(ratio)

NextBand == NewHist1DBand \/ NewRatioPlotBand \/ ErrorBars

SpecBand == InitBand /\ [][NextBand]_vars

----------------------------------------------------------------------------
(* EmptyPlot.set_axislabels, EmptyPlot.fontsize_options and the two        *)
(* figure_options.  A font size is kept as the tuple of its text; kwargs   *)
(* is a dict in the order the caller wrote it.                             *)

\* the new value of a size attribute: 'if arg: self.attr = arg'
size_option(arg, old) ==
    IF arg.t = "int" /\ arg.v # 0 THEN <<ToString(arg.v)>> ELSE old

\* the loop of set_axislabels over labels_kw, from item i on; the message
\* printed for a key of neither dict is kept with the logged errors
RECURSIVE titles_loop(_, _, _)
titles_loop(i, labels_kw, st) ==
    IF i > Len(labels_kw) THEN st
    ELSE LET key == labels_kw[i].k
             value == labels_kw[i].v
         IN  titles_loop(i + 1, labels_kw,
                IF DictHas(st.x, key)
                THEN [st EXCEPT !.x = DictSet(st.x, key, value)]
                ELSE IF DictHas(st.y, key)
                THEN [st EXCEPT !.y = DictSet(st.y, key, value)]
                ELSE [st EXCEPT
                        !.errs = Append(st.errs, Err("key_not_valid", key))])

set_axislabels(fontsize_arg, labels_kw) ==
    LET tl == titles_loop(1, labels_kw,
                          [x |-> xtitles_dict, y |-> ytitles_dict,
                           errs |-> <<>>])
    IN
    /\ pc = "ready"
    /\ op' = "set_axislabels"
    /\ UNCHANGED call
    /\ fontsize' = size_option(fontsize_arg, fontsize)
    /\ xtitles_dict' = tl.x
    /\ ytitles_dict' = tl.y
    /\ errs' = tl.errs
    /\ UNCHANGED <<figsize, mastersize, spacing, stretch, pull_vars>>
    /\ UNCHANGED <<disk, pc, cls, raised_in, store_vars, colors_dict,
                   meta_vars, ratio_vars, stack_vars, opt_vars, proj_vars,
                   axis_vars, bars>>

fontsize_options(title, labels_arg, ticks) ==
    /\ pc = "ready"
    /\ op' = "fontsize_options"
    /\ UNCHANGED call
    /\ mastersize' = size_option(title, mastersize)
    /\ fontsize' = size_option(labels_arg, fontsize)
    /\ rcps' = IF ticks.t = "int" /\ ticks.v # 0
               THEN DictSet(rcps, "font.size", <<ToString(ticks.v)>>)
               ELSE rcps
    /\ errs' = <<>>
    /\ UNCHANGED <<figsize, xtitles_dict, ytitles_dict, spacing, stretch,
                   pull_vars>>
    /\ UNCHANGED <<disk, pc, cls, raised_in, store_vars, colors_dict,
                   meta_vars, ratio_vars, stack_vars, shape, need_grid,
                   gridaxis, gridline, legend_ncols, rcParams, proj_vars,
                   axis_vars, bars>>

\* the value of attribute name after setattr(self, key, val) for every
\* item of kwargs
setattr(kwargs, name, old) ==
    IF DictHas(kwargs, name) THEN DictGet(kwargs, name) ELSE old

\* 'if arg: self.attr = arg' for a named parameter that kwargs may hold
named_option(kwargs, name, old) ==
    IF DictHas(kwargs, name) /\ DictGet(kwargs, name).t = "int"
       /\ DictGet(kwargs, name).v # 0
    THEN DictGet(kwargs, name) ELSE old

(* EmptyPlot.figure_options, and RatioPlot.figure_options, which takes    *)
(* spacing and stretch as named parameters and hands the other keywords   *)
(* to EmptyPlot.figure_options.  The attributes a keyword can set are the *)
(* ones the model names.                                                   *)
figure_options(kwargs) ==
    /\ pc = "ready"
    /\ cls \in {"Hist1D", "RatioPlot"}
    /\ op' = "figure_options"
    /\ UNCHANGED call
    /\ errs' = <<>>
    /\ figsize' = setattr(kwargs, "figsize", figsize)
    /\ samples_dict' = setattr(kwargs, "samples_dict", samples_dict)
    /\ histos_dict' = setattr(kwargs, "histos_dict", histos_dict)
    /\ data_dict' = setattr(kwargs, "data_dict", data_dict)
    /\ plot_types' = setattr(kwargs, "plot_types", plot_types)
    /\ edges' = setattr(kwargs, "edges", edges)
    /\ IF cls = "RatioPlot"
       THEN /\ spacing' = named_option(kwargs, "spacing", spacing)
            /\ stretch' = named_option(kwargs, "stretch", stretch)
       ELSE /\ spacing' = setattr(kwargs, "spacing", spacing)
            /\ stretch' = setattr(kwargs, "stretch", stretch)
    /\ UNCHANGED <<xtitles_dict, ytitles_dict, fontsize, mastersize,
                   pull_vars>>
    /\ UNCHANGED <<disk, pc, cls, raised_in, samples, data, is_stack, errors,
                   histos_list, colors_dict, names, labels, histolabels,
                   scatterlabels, datasize, values, ratio_vars, stack_vars,
                   opt_vars, proj_vars, axis_vars, bars>>

----------------------------------------------------------------------------
(* PullPlot.  pd_obj is a data frame: a sequence of rows [label, value,    *)
(* pos, neg], the index and the columns 1, 2 and 3 of one variable.        *)
(* Numbers are numbers of hundredths; attributes that hold a colour hold   *)
(* the Python value, a str or None.                                        *)

LIMEGREEN == <<"l", "i", "m", "e", "g", "r", "e", "e", "n">>
YELLOW    == <<"y", "e", "l", "l", "o", "w">>

\* PullPlot.__init__: self.errorbar_kw
default_errorbar_kw ==
    << [k |-> "color",      v |-> <<"k">>],
       [k |-> "fmt",        v |-> <<"o">>],
       [k |-> "markersize", v |-> <<"3">>],
       [k |-> "elinewidth", v |-> <<"1">>] >>

\* PullPlot.set_figsize: (2, 0.4012*n**0.763), the length to four decimals
set_figsize(n) ==
    <<"2", <<"0.4012", "0.6808", "0.9277", "1.1554", "1.3699">>[n]>>

\* PullPlot.store_data; self.values[0] raises on a frame without rows
pull_store_data(pd_obj) ==
    [values      |-> [i \in 1..Len(pd_obj) |-> pd_obj[i].value],
     pos_err     |-> [i \in 1..Len(pd_obj) |-> pd_obj[i].pos],
     neg_err     |-> [i \in 1..Len(pd_obj) |-> 0 - pd_obj[i].neg],
     data_labels |-> [i \in 1..Len(pd_obj) |-> pd_obj[i].label],
     nvariables  |-> Len(pd_obj),
     raised      |-> Len(pd_obj) = 0]

\* PullPlot.__init__
NewPullPlot(pd_obj) ==
    LET sd == pull_store_data(pd_obj) IN
    /\ pc = "new"
    /\ pc' = IF sd.raised THEN "raised" ELSE "ready"
    /\ raised_in' = IF sd.raised THEN "store_data" ELSE ""
    /\ cls' = "PullPlot"
    /\ op' = "init"
    /\ errs' = <<>>
    /\ xtitles_dict' = xtitles
    /\ ytitles_dict' = ytitles
    /\ rcps' = base_rcps
    /\ mastersize' = DictGet(base_rcps, "axes.titlesize")
    /\ fontsize' = <<"15">>
    /\ data' = pd_obj
    /\ values' = sd.values
    /\ pos_err' = sd.pos_err
    /\ neg_err' = sd.neg_err
    /\ data_labels' = sd.data_labels
    /\ nvariables' = sd.nvariables
    /\ IF sd.raised
       THEN /\ figsize' = default_size
            /\ UNCHANGED <<center, use_custom_range, labelside,
                           onesigmacolor, twosigmacolor, errorbar_kw>>
       ELSE /\ figsize' = set_figsize(sd.nvariables)
            /\ center' = sd.values[1]
            /\ use_custom_range' = FALSE
            /\ labelside' = <<"right">>
            /\ onesigmacolor' = Str(LIMEGREEN)
            /\ twosigmacolor' = Str(YELLOW)
            /\ errorbar_kw' = default_errorbar_kw
    /\ UNCHANGED <<rangelist, user_xmin, user_xmax, xlim, xticks, spacing,
                   stretch>>
    /\ UNCHANGED <<disk, call, samples, is_stack, errors, samples_dict,
                   histos_dict, histos_list, data_dict, plot_types,
                   colors_dict, names, labels, histolabels, scatterlabels,
                   datasize, edges, ratio_vars, stack_vars, shape, need_grid,
                   gridaxis, gridline, legend_ncols, rcParams, proj_vars,
                   axis_vars, bars>>

\* PullPlot.plot_options; center is a number or None, rangelist a list, a
\* tuple or None
pull_plot_options(center_arg, rangelist_arg, rcp_kw, errorbar_kw_arg) ==
    LET merged == rcps_update(rcps, rcp_kw)
        accepted == /\ Truthy(rangelist_arg)
                    /\ rangelist_arg.t = "list"
                    /\ Len(rangelist_arg.v) = 2
    IN
    /\ pc = "ready"
    /\ cls = "PullPlot"
    /\ op' = "plot_options"
    /\ errs' = <<>>
    /\ rcps' = merged
    /\ rcParams' = config_rcParams(rcParams, merged)
    /\ errorbar_kw' = update(errorbar_kw, errorbar_kw_arg)
    /\ center' = IF center_arg.t # "none" THEN center_arg.v ELSE center
    /\ IF accepted
       THEN /\ rangelist' = rangelist_arg.v
            /\ user_xmin' = rangelist_arg.v[1]
            /\ user_xmax' = rangelist_arg.v[2]
            /\ use_custom_range' = TRUE
       ELSE UNCHANGED <<rangelist, user_xmin, user_xmax, use_custom_range>>
    /\ UNCHANGED <<pos_err, neg_err, data_labels, nvariables, labelside,
                   onesigmacolor, twosigmacolor, xlim, xticks, fig_vars>>
    /\ UNCHANGED <<disk, pc, cls, raised_in, call, store_vars, colors_dict,
                   meta_vars, ratio_vars, stack_vars, shape, need_grid,
                   gridaxis, gridline, legend_ncols, proj_vars, axis_vars,
                   bars>>

\* PullPlot.color_options
pull_color_options(marker, onesigma, twosigma) ==
    /\ pc = "ready"
    /\ cls = "PullPlot"
    /\ op' = "color_options"
    /\ errs' = <<>>
    /\ onesigmacolor' = onesigma
    /\ twosigmacolor' = twosigma
    /\ errorbar_kw' = IF Truthy(marker)
                      THEN DictSet(errorbar_kw, "color", marker.v)
                      ELSE errorbar_kw
    /\ UNCHANGED <<pos_err, neg_err, data_labels, nvariables, center,
                   use_custom_range, rangelist, user_xmin, user_xmax,
                   labelside, xlim, xticks, fig_vars>>
    /\ UNCHANGED <<disk, pc, cls, raised_in, call, store_vars, colors_dict,
                   meta_vars, ratio_vars, stack_vars, opt_vars, proj_vars,
                   axis_vars, bars>>

\* max(q) for a non-empty q
max(q) == CHOOSE x \in {q[i] : i \in 1..Len(q)} :
              \A i \in 1..Len(q) : q[i] <= x

\* math.ceil, in hundredths
ceil(h) == 0 - Centi((0 - h) \div Centi(1))

\* nice_range with the absolute values of the errors
nice_range_abs(neg, pos) ==
    ceil(max(<<max([i \in 1..Len(neg) |-> Abs(neg[i])]),
               max([i \in 1..Len(pos) |-> Abs(pos[i])])>>)) + Centi(2)

\* set_xaxis: nice_range
nice_range(neg, pos) == ceil(max(<<max(neg), max(pos)>>)) + Centi(2)

\* PullPlot.set_xaxis: the limits and the ticks it hands to the axes
set_xaxis ==
    LET xmin == IF use_custom_range THEN user_xmin
                ELSE 0 - nice_range(neg_err, pos_err) + center
        xmax == IF use_custom_range THEN user_xmax
                ELSE nice_range(neg_err, pos_err) + center
    IN  [xlim   |-> <<xmin, xmax>>,
         xticks |-> arange(xmin, xmax + Centi(1), Centi(1))]

(* PullPlot.pull_plot, as far as the x axis.  ax.errorbar is the          *)
(* library's: whether it raises ValueError for a negative error depends   *)
(* on the library, so strict is either.  Nothing is set after a raise.    *)
pull_plot(strict) ==
    LET negative == \E i \in 1..nvariables : neg_err[i] < 0 \/ pos_err[i] < 0
    IN
    /\ pc = "ready"
    /\ cls = "PullPlot"
    /\ op' = "pull_plot"
    /\ IF strict /\ negative
       THEN /\ errs' = <<Err("ValueError", <<>>)>>
            /\ UNCHANGED <<xlim, xticks>>
       ELSE /\ errs' = <<>>
            /\ xlim' = set_xaxis.xlim
            /\ xticks' = set_xaxis.xticks
    /\ UNCHANGED <<pos_err, neg_err, data_labels, nvariables, center,
                   use_custom_range, rangelist, user_xmin, user_xmax,
                   labelside, onesigmacolor, twosigmacolor, errorbar_kw,
                   fig_vars>>
    /\ UNCHANGED <<disk, pc, cls, raised_in, call, store_vars, colors_dict,
                   meta_vars, ratio_vars, stack_vars, opt_vars, proj_vars,
                   axis_vars, bars>>

----------------------------------------------------------------------------
(* SpecStore: Hist1D objects over directories whose two varying files     *)
(* hold a histogram of NBins bins, one whose axis has no name and no      *)
(* label, one whose label is the empty str, one with one more bin, or     *)
(* nothing; the samples argument may name a file twice.                    *)

Unlabelled == Hist(Ones(NBins), RegularEdges(NBins), NoneVal, NoneVal)
EmptyLabel == Hist(Ones(NBins), RegularEdges(NBins), "x", "")
Wide       == Hist(Ones(NBins + 1), RegularEdges(NBins + 1), "x", "X")

StoreFiles == {Plain, Unlabelled, EmptyLabel, Wide, Missing}

StoreSampleArgs ==
    {List(l) : l \in SeqsUpTo(Pool, MaxSamples)} \cup {List(<<A, B, A>>)}

StoreDataArgs == {List(<<>>), Str(B), Str(ALL)}

InitStore == InitWith(Disks(StoreFiles))

NewHist1DStore ==
    \E smp \in StoreSampleArgs, dat \in StoreDataArgs, stack \in BOOLEAN :
        Construct("Hist1D", smp, dat, stack, None)

NextStore == NewHist1DStore

SpecStore == InitStore /\ [][NextStore]_vars

----------------------------------------------------------------------------
(* SpecCustom: Hist1D objects of two samples, stacked or not, given a      *)
(* colour list or a colour map and then a shape, alone or with a grid, a   *)
(* marker, a legend or a style option.                                     *)

CustomColorArgs ==
    {[colors |-> List(<<RED, BLUE>>), colormap |-> Str(<<>>)],
     [colors |-> List(<<BLUE, RED>>), colormap |-> Str(<<>>)],
     [colors |-> List(<<>>), colormap |-> Str(VIRIDIS)]}

\* nothing but a shape, or a hollow or full shape with one more option
NoOptions ==
    [shape |-> None, gridstring |-> Str(<<>>), marker |-> None,
     legendcols |-> NoInt, rcp_kw |-> <<>>]

CustomPlotArgs ==
    {[NoOptions EXCEPT !.shape = sh] : sh \in ShapeArgs}
    \cup {[NoOptions EXCEPT !.shape = Str(sh),
                            !.gridstring = Str(X \o <<":">>)] :
            sh \in {FULL, HOLLOW}}
    \cup {[NoOptions EXCEPT !.shape = Str(sh), !.marker = Str(<<"o">>)] :
            sh \in {FULL, HOLLOW}}
    \cup {[NoOptions EXCEPT !.shape = Str(sh),
                            !.legendcols = IntArg(MaxCols)] :
            sh \in {FULL, HOLLOW}}
    \cup {[NoOptions EXCEPT !.shape = Str(sh),
                            !.rcp_kw = <<[k |-> "font.size", v |-> <<"7">>]>>] :
            sh \in {FULL, HOLLOW}}

InitCustom == InitWith(Disks({Plain}))

NewHist1DCustom ==
    \E dat \in {List(<<>>), Str(B)}, stack \in BOOLEAN :
        Construct("Hist1D", List(<<A, B>>), dat, stack, None)

CustomColorOptions ==
    \E a \in CustomColorArgs : color_options(a.colors, a.colormap, FALSE)

CustomPlotOptions ==
    \E a \in CustomPlotArgs :
        plot_options(a.shape, a.gridstring, a.marker, NoInt, a.legendcols,
                     a.rcp_kw)

NextCustom == NewHist1DCustom \/ CustomColorOptions \/ CustomPlotOptions

SpecCustom == InitCustom /\ [][NextCustom]_vars

----------------------------------------------------------------------------
(* SpecFrame: a Hist1D and a RatioPlot of two samples, and every public    *)
(* option method called on them.                                           *)

WIDE_SIZE == <<"8", "6">>

\* keywords of figure_options, one dict per call: a figure size and the
\* edges, or spacing, stretch and the sample dict
FigureKwargs ==
    << <<[k |-> "figsize", v |-> WIDE_SIZE],
         [k |-> "edges", v |-> <<0, 1>>]>>,
       <<[k |-> "spacing", v |-> IntArg(1)],
         [k |-> "stretch", v |-> NoInt],
         [k |-> "samples_dict", v |-> <<>>]>> >>

\* a key of ytitles_dict and a key of neither dict
LabelKwargs ==
    <<[k |-> "ybot", v |-> <<"r">>], [k |-> "zmain", v |-> <<"E">>]>>

InitFrame == InitWith(Disks({Plain}))

NewHist1DFrame ==
    Construct("Hist1D", List(<<A, B>>), Str(B), FALSE, None)

NewRatioPlotFrame ==
    Construct("RatioPlot", List(<<A, B>>), List(<<>>), FALSE, Str(B))

FigureOptions ==
    \E i \in 1..Len(FigureKwargs) : figure_options(FigureKwargs[i])

AxisLabels ==
    \E f \in {NoInt, IntArg(12)} : set_axislabels(f, LabelKwargs)

FontsizeOptions ==
    \/ fontsize_options(IntArg(12), NoInt, IntArg(0))
    \/ fontsize_options(NoInt, IntArg(12), IntArg(12))

FramePlotOptions ==
    plot_options(Str(HOLLOW), Str(X \o <<":">>), None, NoInt, NoInt, <<>>)

FrameColorOptions == color_options(List(<<RED, BLUE>>), Str(<<>>), FALSE)

FrameRatioOptions ==
    ratio_options(<<0, Hundredths(MaxTick)>>, Hundredths(2), FALSE)

NextFrame ==
    \/ NewHist1DFrame
    \/ NewRatioPlotFrame
    \/ FigureOptions
    \/ AxisLabels
    \/ FontsizeOptions
    \/ FramePlotOptions
    \/ FrameColorOptions
    \/ FrameRatioOptions

SpecFrame == InitFrame /\ [][NextFrame]_vars

----------------------------------------------------------------------------
(* SpecPull: PullPlot objects over frames of no, one or two variables.     *)
(* The errors of the first variable run through the halves from -0.5 to    *)
(* MaxErr/2 on either side, so that a side may have the sign it is not     *)
(* meant to have; the second variable has the largest error on one side,   *)
(* or both errors of the wrong sign.                                       *)

Halves(q) == 50 * q

ErrValues == {Halves(q) : q \in (0 - 1)..MaxErr}

FirstRows ==
    {[label |-> "v1", value |-> Halves(1), pos |-> p, neg |-> 0 - n] :
        p \in ErrValues, n \in ErrValues}

SecondRows ==
    {[label |-> "v2", value |-> 0, pos |-> Halves(MaxErr), neg |-> 0],
     [label |-> "v2", value |-> 0, pos |-> 0, neg |-> 0 - Halves(MaxErr)],
     [label |-> "v2", value |-> 0, pos |-> 0 - Halves(1), neg |-> Halves(1)]}

Frames ==
    {<<>>} \cup {<<r>> : r \in FirstRows}
    \cup {<<r, t>> : r \in FirstRows, t \in SecondRows}

Tuple(es) == [t |-> "tuple", v |-> es]

RangeArgs ==
    {None, List(<<>>), List(<<0 - Halves(2), Halves(3)>>),
     List(<<0, Halves(2), Halves(4)>>), Tuple(<<0 - Halves(2), Halves(2)>>)}

InitPull == InitWith(Disks({Plain}))

NewPullPlotFrame == \E f \in Frames : NewPullPlot(f)

CenterOptions ==
    \E c \in {IntArg(0), IntArg(Halves(2))} :
        pull_plot_options(c, None, <<>>, <<>>)

RangeOptions ==
    \E r \in RangeArgs : pull_plot_options(NoInt, r, <<>>, <<>>)

PullStyleOptions ==
    pull_plot_options(NoInt, None, <<[k |-> "font.size", v |-> <<"7">>]>>,
                      <<[k |-> "fmt", v |-> <<"s">>]>>)

PullPlotDrawn == \E strict \in BOOLEAN : pull_plot(strict)

NextPull ==
    \/ NewPullPlotFrame
    \/ CenterOptions
    \/ RangeOptions
    \/ PullStyleOptions
    \/ PullPlotDrawn

SpecPull == InitPull /\ [][NextPull]_vars

----------------------------------------------------------------------------
(* SpecPullColor: PullPlot objects of one variable and every way of        *)
(* passing or leaving out the three colours of color_options.              *)

ColourFrames ==
    {<<[label |-> "v1", value |-> 0, pos |-> p, neg |-> 0 - p]>> :
        p \in {Halves(q) : q \in 1..MaxErr}}

NewPullPlotColour == \E f \in ColourFrames : NewPullPlot(f)

PullColorOptions ==
    \E marker \in {None, Str(<<>>), Str(RED)},
       onesigma \in {None, Str(RED), Str(LIMEGREEN)},
       twosigma \in {None, Str(BLUE), Str(YELLOW)} :
        pull_color_options(marker, onesigma, twosigma)

NextPullColor ==
    \/ NewPullPlotColour
    \/ PullColorOptions
    \/ PullPlotDrawn

SpecPullColor == InitPull /\ [][NextPullColor]_vars

----------------------------------------------------------------------------
(* Properties of the sample store (Spec) *)

Logged(e) == \E i \in 1..Len(errs) : errs[i] = e
Distinct(s) == \A i, j \in 1..Len(s) : i # j => s[i] # s[j]

\* C3: once a Hist1D is constructed, every name of samples_dict is a key of
\* exactly one of histos_dict and data_dict, and plot_types gives 'data' to
\* exactly the keys of data_dict and 'histo' to exactly those of histos_dict.
C3_EveryNameHasOneRole ==
    pc = "ready" =>
        /\ Keys(histos_dict) \cup Keys(data_dict) = Keys(samples_dict)
        /\ Keys(histos_dict) \cap Keys(data_dict) = {}
        /\ Keys(plot_types) = Keys(samples_dict)
        /\ \A i \in 1..Len(plot_types) :
              /\ plot_types[i].v = "data"
                    <=> plot_types[i].k \in Keys(data_dict)
              /\ plot_types[i].v = "histo"
                    <=> plot_types[i].k \in Keys(histos_dict)

C3_Witness ==
    pc = "ready" /\ Len(histos_dict) > 0 /\ Len(data_dict) > 0

\* the samples list holds N distinct names, every file is a histogram and
\* all histograms have the same edges
DistinctLoadable ==
    /\ pc = "ready"
    /\ Distinct(samples.v)
    /\ \A i \in 1..Len(samples.v) : disk[samples.v[i]].kind = "hist"
    /\ \A i \in 1..Len(samples_dict) :
          samples_dict[i].v.edges = samples_dict[1].v.edges

\* C4 as stated: for N distinct loadable names,
\* len(samples_dict) + len(data_dict) == N whatever the data argument.
C4_SamplesPlusData ==
    DistinctLoadable =>
        Len(samples_dict) + Len(data_dict) = Len(samples.v)

\* C4 amended: for N distinct loadable names,
\* len(histos_dict) + len(data_dict) == N whatever the data argument.
C4_HistosPlusData ==
    DistinctLoadable =>
        Len(histos_dict) + Len(data_dict) = Len(samples.v)

C4_Witness ==
    DistinctLoadable /\ Len(histos_dict) > 0 /\ Len(data_dict) > 0

\* the k-th requested name is the first whose file is not a histogram
FirstBad(k) ==
    /\ disk[samples.v[k]].kind # "hist"
    /\ \A j \in 1..(k - 1) : disk[samples.v[j]].kind = "hist"

\* the names of s in order of first occurrence
RECURSIVE FirstOccurrences(_)
FirstOccurrences(s) ==
    IF s = <<>> THEN <<>>
    ELSE LET front == FirstOccurrences(SubSeq(s, 1, Len(s) - 1))
             last  == s[Len(s)]
         IN  IF \E i \in 1..Len(front) : front[i] = last
             THEN front ELSE Append(front, last)

SamplesAccepted == Truthy(call.samples) /\ type_checker(call.samples).ok

\* C5: when the k-th name of samples is the first whose file is missing or
\* holds no histogram, the error naming it is the last one logged by the
\* constructor and samples_dict holds exactly the names before it, in order.
C5_LoadingStopsAtFirstBadFile ==
    (pc # "new" /\ SamplesAccepted) =>
        \A k \in 1..Len(samples.v) :
            FirstBad(k) =>
                /\ DictKeys(samples_dict)
                      = FirstOccurrences(SubSeq(samples.v, 1, k - 1))
                /\ op = "init" =>
                      /\ Len(errs) > 0
                      /\ errs[Len(errs)] =
                            Err(IF disk[samples.v[k]].kind = "missing"
                                THEN "no_file" ELSE "not_hist",
                                samples.v[k])

C5_Witness ==
    /\ pc = "ready" /\ SamplesAccepted
    /\ \E k \in 2..Len(samples.v) :
          /\ FirstBad(k)
          /\ \E j \in (k + 1)..Len(samples.v) :
                disk[samples.v[j]].kind = "hist"

\* C6 as stated: a Hist1D built from an empty samples list logs the
\* 'no samples' error, has an empty store and is returned.
C6_EmptySamplesConstructs ==
    (pc # "new" /\ ~Truthy(call.samples)) =>
        /\ pc = "ready"
        /\ op = "init" => Logged(Err("no_samples", <<>>))
        /\ samples_dict = <<>> /\ histos_dict = <<>>
        /\ data_dict = <<>> /\ colors_dict = <<>>

\* the sample names a data argument holds
NamedBy(dat) ==
    IF dat.t = "list" THEN {dat.v[i] : i \in 1..Len(dat.v)} \ {NonStr}
    ELSE IF dat.v = ALL \/ dat.v = <<>> THEN {} ELSE {dat.v}

ArgsAccepted == SamplesAccepted /\ type_checker(call.data).ok

----------------------------------------------------------------------------
(* Properties of the colour assignment (SpecColor) *)

\* C8: after construction the i-th loaded sample has the i-th palette
\* colour when len(samples) <= 10 and stacking is off, and otherwise the
\* i-th colour of the ramp of len(samples) colours; no index passes the end
\* of the palette or of the ramp.
C8_DefaultColors ==
    (pc # "new" /\ op = "init") =>
        /\ raised_in # "assign_colors"
        /\ DictKeys(colors_dict) = DictKeys(samples_dict)
        /\ \A i \in 1..Len(samples_dict) :
              IF PyLen(samples) <= 10 /\ ~is_stack
              THEN /\ i <= Len(color_order)
                   /\ colors_dict[i].v = color_order[i]
              ELSE /\ i <= PyLen(samples)
                   /\ colors_dict[i].v =
                        colorlist_gen(PyLen(samples), GIST_RAINBOW, FALSE)[i]

C8_Witness ==
    /\ pc = "ready" /\ op = "init" /\ ~is_stack
    /\ Len(samples_dict) = Len(color_order) + 1

\* a list of colour strings as long as the samples list was passed
MatchingColorList ==
    /\ pc = "ready" /\ op = "color_options"
    /\ call.colors.t = "list" /\ Truthy(call.colors)
    /\ type_checker(call.colors).ok
    /\ PyLen(call.colors) = PyLen(samples)

\* C9: color_options with a list of colour strings as long as the samples
\* list leaves colors_dict mapping the i-th loaded sample to colors[i].
C9_CustomColorsPositional ==
    MatchingColorList =>
        /\ errs = <<>>
        /\ \A i \in 1..Len(samples_dict) :
              /\ DictHas(colors_dict, samples_dict[i].k)
              /\ DictGet(colors_dict, samples_dict[i].k) = call.colors.v[i]

C9_Witness ==
    MatchingColorList /\ Len(samples_dict) = 2
        /\ call.colors.v = <<RED, BLUE>>

\* C10: color_options with a colour list (or single colour) whose length
\* differs from len(samples) logs the length-mismatch error and leaves
\* colors_dict as it was.
C10_MismatchKeepsColors ==
    [][(/\ op' = "color_options"
        /\ Truthy(call'.colors)
        /\ type_checker(call'.colors).ok
        /\ PyLen(AsList(call'.colors)) # PyLen(samples))
       => (/\ colors_dict' = colors_dict
           /\ errs' = <<Err("length_mismatch", <<>>)>>)]_vars

C10_Witness ==
    /\ pc = "ready" /\ op = "color_options"
    /\ errs = <<Err("length_mismatch", <<>>)>>
    /\ Len(colors_dict) > 1
    /\ PyLen(call.colors) > PyLen(samples)

----------------------------------------------------------------------------
(* Properties of the derived series (SpecRatio, SpecStack) *)

\* C1: in a constructed RatioPlot every numerator has its entry in
\* ratiovalues, and in every bin i that has a denominator the entry is the
\* quotient numerator[i]/denominator[i] when denominator[i] # 0 and exactly
\* 0 when denominator[i] = 0; no entry has a zero divisor.
C1_RatioRule ==
    (pc = "ready" /\ cls = "RatioPlot") =>
        /\ DictKeys(ratiovalues) = DictKeys(numerators)
        /\ \A j \in 1..Len(ratiovalues) :
              LET n == DictGet(samples_dict, ratiovalues[j].k).values
                  r == ratiovalues[j].v
              IN  \A i \in 1..Len(n) :
                     i <= Len(dvals.v) =>
                        /\ i <= Len(r)
                        /\ r[i].den # 0
                        /\ IF dvals.v[i] # 0
                           THEN r[i].num * dvals.v[i] = n[i] * r[i].den
                           ELSE r[i].num = 0

C1_Witness ==
    /\ pc = "ready" /\ cls = "RatioPlot"
    /\ \E j \in 1..Len(ratiovalues) :
          LET n == DictGet(samples_dict, ratiovalues[j].k).values
              r == ratiovalues[j].v
          IN  /\ Len(r) = NBins
              /\ \E i \in 1..NBins : dvals.v[i] = 0 /\ n[i] > 0
              /\ \E i \in 1..NBins : dvals.v[i] = 2 /\ n[i] = 1

\* the sum of bin i over the histograms of l
RECURSIVE BinTotal(_, _)
BinTotal(l, i) ==
    IF l = <<>> THEN 0 ELSE Head(l).values[i] + BinTotal(Tail(l), i)

SameBins(l) == \A h \in 1..Len(l) : Len(l[h].values) = Len(l[1].values)

\* C2: get_stackvalues on a non-empty list of histograms with the same
\* number of bins returns, bin by bin, the sum over the listed histograms;
\* for a one-element list it returns that histogram's values.
C2_StackIsBinwiseSum ==
    (stack_out.kind # "none" /\ Len(stack_in) >= 1 /\ SameBins(stack_in)) =>
        /\ stack_out.kind = "list"
        /\ Len(stack_out.v) = Len(stack_in[1].values)
        /\ \A i \in 1..Len(stack_out.v) :
              stack_out.v[i] = BinTotal(stack_in, i)
        /\ Len(stack_in) = 1 => stack_out.v = stack_in[1].values

C2_Witness ==
    /\ stack_out.kind = "list" /\ Len(stack_in) = MaxStackLen
    /\ SameBins(stack_in)
    /\ stack_in[1] # stack_in[2]
    /\ stack_out.v # stack_in[1].values

----------------------------------------------------------------------------
(* Properties of the grid options (SpecGrid) *)

GridAxes  == {X, Y, BOTH}
GridLines == {linestyles[i] : i \in 1..Len(linestyles)}

\* an axis immediately followed by a line style
WellFormed(g) == \E a \in GridAxes, l \in GridLines : g = a \o l
AxisPart(g) == IF g[1] = "b" THEN BOTH ELSE <<g[1]>>
LinePart(g) == From(g, Len(AxisPart(g)))

\* C12: a plot_options call with a non-empty grid string sets gridaxis and
\* gridline to the two parts of the string when it is an axis of x, y, both
\* followed by a line style of -, --, -., :, and otherwise logs an error
\* and leaves gridaxis and gridline as they were.
C12_GridStringAccepted ==
    [][(op' = "plot_options" /\ Truthy(call'.gridstring)) =>
         IF WellFormed(call'.gridstring.v)
         THEN /\ gridaxis' = AxisPart(call'.gridstring.v)
              /\ gridline' = LinePart(call'.gridstring.v)
              /\ errs' = <<>>
         ELSE /\ errs' = <<Err("invalid_gridstring", call'.gridstring.v)>>
              /\ UNCHANGED <<gridaxis, gridline>>]_vars

C12_Witness ==
    /\ op = "plot_options"
    /\ call.gridstring.v = BOTH \o <<"-", ".">>
    /\ gridaxis = BOTH
    /\ gridline = <<"-", ".">>

\* C13 as stated: need_grid is true only with a grid axis of x, y, both and
\* a grid line of -, --, -., :.
C13_GridOnlyWhenValid ==
    (pc = "ready" /\ need_grid) =>
        (gridaxis \in GridAxes /\ gridline \in GridLines)

----------------------------------------------------------------------------
(* Properties of the shape, legend and default colours (SpecOptions) *)

Ramp == colorlist_gen(PyLen(samples), GIST_RAINBOW, FALSE)
FromRamp ==
    \A i \in 1..Len(colors_dict) : colors_dict[i].v = Ramp[i]
FromPalette ==
    \A i \in 1..Len(colors_dict) : colors_dict[i].v = color_order[i]
Many == PyLen(samples) > Len(color_order)

\* C11 as stated: with no custom colours requested, a plot with stacking on
\* or with more than 10 samples has its colours from the generated ramp.
C11_RampWhenStackOrMany ==
    (pc = "ready" /\ (is_stack \/ Many)) => FromRamp

\* C11 amended: a plot of more than 10 samples has its colours from the
\* ramp; a stacked plot of at most 10 samples has them from the fixed
\* palette whenever its shape is hollow, and from the ramp or the palette
\* when its shape is full.
C11_RampUnlessHollowStack ==
    pc = "ready" =>
        /\ Many => FromRamp
        /\ (is_stack /\ ~Many /\ shape = HOLLOW) => FromPalette
        /\ (is_stack /\ ~Many /\ shape = FULL) => (FromRamp \/ FromPalette)

C11_Witness ==
    /\ pc = "ready"
    /\ is_stack
    /\ Len(colors_dict) = 2
    /\ op = "plot_options"
    /\ call.shape = Str(FULL)
    /\ shape = FULL
    /\ FromPalette

ShapeAllowed ==
    /\ shape \in {FULL, HOLLOW}
    /\ shape = FULL => (is_stack \/ Len(histos_dict) <= 1)

Rejected(arg) ==
    /\ Truthy(arg)
    /\ \/ arg.v \notin {FULL, HOLLOW}
       \/ arg.v = FULL /\ ~is_stack /\ Len(histos_dict) > 1

\* C14: the shape of a constructed Hist1D is 'full' or 'hollow', and 'full'
\* only on a stacked plot or with at most one histogram-role sample; a
\* plot_options call whose shape is an unknown value, or 'full' on a plot
\* that is not stacked and has more than one histogram, logs an error and
\* leaves the shape as it was.
C14_ShapeStaysAllowed ==
    /\ [](pc = "ready" => ShapeAllowed)
    /\ [][(op' = "plot_options" /\ Rejected(call'.shape)) =>
            (shape' = shape /\ Len(errs') > 0)]_vars

C14_Witness ==
    /\ op = "plot_options"
    /\ call.shape = Str(FULL)
    /\ ~is_stack
    /\ Len(histos_dict) > 1
    /\ shape = HOLLOW
    /\ Logged(Err("full_not_stack", FULL))

\* C15 as stated: the legend column count of a constructed Hist1D is a
\* positive integer.
C15_LegendColsPositive ==
    pc = "ready" => legend_ncols >= 1

----------------------------------------------------------------------------
(* Properties of the style overrides (SpecStyle) *)

OnlyStyle ==
    /\ op' = "plot_options"
    /\ call'.marker = None
    /\ call'.markersize = NoInt

\* C16: a plot_options call that passes only rcp_kw = m sets rcps[key] to
\* m[key] for every key of m that mpl.rcParams knows, adds no other key of
\* m to rcps, logs no error, and leaves every other entry of rcps with the
\* value it had.
C16_StyleMerge ==
    [][OnlyStyle =>
         /\ errs' = <<>>
         /\ \A k \in Keys(rcps) \cup Keys(call'.rcp_kw) \cup Keys(rcps') :
              IF DictHas(call'.rcp_kw, k) /\ k \in RcKeys
              THEN DictHas(rcps', k)
                   /\ DictGet(rcps', k) = DictGet(call'.rcp_kw, k)
              ELSE IF DictHas(rcps, k)
              THEN DictHas(rcps', k) /\ DictGet(rcps', k) = DictGet(rcps, k)
              ELSE ~DictHas(rcps', k)]_vars

C16_Witness ==
    /\ op = "plot_options"
    /\ DictHas(call.rcp_kw, "foo")
    /\ DictHas(call.rcp_kw, "legend.fontsize")
    /\ DictHas(call.rcp_kw, "font.size")
    /\ DictGet(rcps, "font.size") = DictGet(call.rcp_kw, "font.size")
    /\ DictGet(rcps, "lines.marker") = <<"o">>
    /\ ~DictHas(rcps, "foo")

----------------------------------------------------------------------------
(* Properties of the tick labels (SpecAxis) *)

Inner == {i \in 1..Len(ybotrange) : 1 < i /\ i < Len(ybotrange)}

\* C17: with every tick written with 2 decimals, all labels have 2 decimals
\* if a tick other than the first and the last has a non-zero 2nd decimal,
\* else 1 decimal if such a tick has a non-zero 1st decimal, else none.
C17_LabelPrecision ==
    (op = "ratio_options" /\ errs = <<>>) =>
        /\ Len(ybotlabels) = Len(ybotrange)
        /\ \A i \in 1..Len(ybotlabels) :
             ~ybotlabels[i].blank =>
                ybotlabels[i].decimals =
                    IF \E j \in Inner : Format(ybotrange[j], 2).hundredths % 10 # 0
                    THEN 2
                    ELSE IF \E j \in Inner :
                              Format(ybotrange[j], 2).hundredths % 100 # 0
                    THEN 1
                    ELSE 0

C17_Witness ==
    /\ op = "ratio_options"
    /\ call.edges
    /\ ybotrange = <<Hundredths(0 - 2), 0, Hundredths(2)>>
    /\ \A i \in 1..3 : ybotlabels[i].decimals = 0 /\ ~ybotlabels[i].blank

\* C18 as stated: every label that is not blank shows the value of its
\* tick.
C18_LabelsShowTicks ==
    op = "ratio_options" =>
        \A i \in 1..Len(ybotlabels) :
            ~ybotlabels[i].blank => ybotlabels[i].hundredths = ybotrange[i]

----------------------------------------------------------------------------
(* Properties of the error bars (SpecBand) *)

HistValues(k) == histos_dict[k].v.values
Total(i) == SumSeq([k \in 1..Len(histos_dict) |-> HistValues(k)[i]])

\* the bar runs from v - sqrt(v) to v + sqrt(v), to the hundredth
PoissonBand(bar, i, v) ==
    LET lower == bar.bottom[i].x
        upper == bar.bottom[i].x + bar.heights[i].x
        half  == Centi(v) - lower
    IN  /\ ~bar.bottom[i].nan /\ ~bar.heights[i].nan
        /\ half >= 0
        /\ half * half <= Centi(Centi(v))
        /\ Centi(Centi(v)) < (half + 1) * (half + 1)
        /\ upper = Centi(v) + half

\* C19: outside ratio mode the bar of every bin of value v runs from
\* v - sqrt(v) to v + sqrt(v); a stacked plot gets one bar, on the total of
\* its histogram-role samples, any other plot one bar per histogram-role
\* sample.
C19_PoissonBand ==
    (op = "histbins_errs" /\ ~call.ratio /\ errs = <<>>) =>
        IF is_stack
        THEN /\ Len(bars) = 1
             /\ Len(bars[1].bottom) = Len(HistValues(1))
             /\ \A i \in 1..Len(HistValues(1)) :
                    PoissonBand(bars[1], i, Total(i))
        ELSE /\ Len(bars) = Len(histos_dict)
             /\ \A k \in 1..Len(bars) :
                    /\ Len(bars[k].bottom) = Len(HistValues(k))
                    /\ \A i \in 1..Len(HistValues(k)) :
                           PoissonBand(bars[k], i, HistValues(k)[i])

C19_Witness ==
    /\ op = "histbins_errs"
    /\ ~call.ratio
    /\ is_stack
    /\ Len(histos_dict) = 2
    /\ Len(bars) = 1
    /\ \E i \in 1..NBins :
          /\ HistValues(1)[i] = 2 /\ HistValues(2)[i] = 2
          /\ bars[1].bottom[i].x = Centi(2)
          /\ bars[1].heights[i].x = Centi(4)

ZeroBin ==
    IF is_stack
    THEN \E i \in 1..Len(HistValues(1)) : Total(i) = 0
    ELSE \E k \in 1..Len(histos_dict) :
            \E i \in 1..Len(HistValues(k)) : HistValues(k)[i] = 0

\* C20 as stated: in ratio mode, when a bin value is 0, the computation
\* reports or raises an error and no bar has a nan bound.
C20_ZeroBinFails ==
    (op = "histbins_errs" /\ call.ratio /\ Len(histos_dict) > 0
     /\ stack_out.kind # "raise" /\ ZeroBin) =>
        /\ errs # <<>>
        /\ \A k \in 1..Len(bars) : \A i \in 1..Len(bars[k].bottom) :
               ~bars[k].bottom[i].nan /\ ~bars[k].heights[i].nan

----------------------------------------------------------------------------
(* Properties of the stored metadata (SpecStore) *)

\* the text store_data is to keep for an axis name or label
Stored(meta) == IF Falsy(meta) THEN "" ELSE meta

\* the loaded samples that are data, and those that are not, in order
DataItems == SelectSeq(samples_dict, LAMBDA it : DictHas(data_dict, it.k))
HistoItems == SelectSeq(samples_dict, LAMBDA it : ~DictHas(data_dict, it.k))

\* C22: in a constructed Hist1D the stored name and label of every loaded
\* sample are the axis name and label of its object, or the empty str when
\* the object has none; this holds for every entry of names, labels,
\* histolabels and scatterlabels, none of which is None, and
\* len(histolabels) + len(scatterlabels) == len(labels) == len(samples_dict).
C22_LabelsNeverNone ==
    pc = "ready" =>
        /\ Len(names) = Len(samples_dict)
        /\ Len(labels) = Len(samples_dict)
        /\ Len(histolabels) + Len(scatterlabels) = Len(labels)
        /\ \A i \in 1..Len(samples_dict) :
              /\ names[i] = Stored(samples_dict[i].v.name)
              /\ labels[i] = Stored(samples_dict[i].v.label)
        /\ Len(histolabels) = Len(HistoItems)
        /\ \A j \in 1..Len(histolabels) :
              histolabels[j] = Stored(HistoItems[j].v.label)
        /\ Len(scatterlabels) = Len(DataItems)
        /\ \A j \in 1..Len(scatterlabels) :
              scatterlabels[j] = Stored(DataItems[j].v.label)

\* C23: in a constructed Hist1D every loaded sample has the stored edges
\* and datasize bins, and every list of values has datasize entries.
C23_SamplesShareBinning ==
    pc = "ready" =>
        /\ \A i \in 1..Len(samples_dict) :
              /\ samples_dict[i].v.edges = edges
              /\ Len(samples_dict[i].v.values) = datasize
        /\ \A i \in 1..Len(values) : Len(values[i]) = datasize

\* C27: in a constructed Hist1D histos_list is the sequence of the values
\* of histos_dict in insertion order, whatever the samples list, so that
\* no histogram-role sample is in it twice.
C27_HistosListMatchesDict ==
    pc = "ready" =>
        /\ Len(histos_list) = Len(histos_dict)
        /\ \A i \in 1..Len(histos_list) : histos_list[i] = histos_dict[i].v

----------------------------------------------------------------------------
(* Properties of the reference of a RatioPlot (SpecRatio) *)

\* every loaded sample has datasize bins
SameBinning ==
    \A i \in 1..Len(samples_dict) :
        Len(samples_dict[i].v.values) = datasize

\* the reference is one of the requested names
ReferenceRequested ==
    /\ pc = "ready" /\ cls = "RatioPlot"
    /\ reference.t = "str"
    /\ \E i \in 1..Len(samples.v) : samples.v[i] = reference.v

\* C25: in a constructed RatioPlot whose reference is one of the requested
\* names, ratiovalues has one entry for every loaded sample other than the
\* reference, in order, and every entry has as many values as the
\* histograms have bins, whatever the loading did.
C25_RatioPerLoadedSample ==
    (ReferenceRequested /\ SameBinning) =>
        /\ DictKeys(ratiovalues)
              = DictKeys(Others(samples_dict, reference.v))
        /\ \A j \in 1..Len(ratiovalues) : Len(ratiovalues[j].v) = datasize

\* the reference is 'total' and every requested file was loaded
ReferenceTotal ==
    /\ pc = "ready" /\ cls = "RatioPlot"
    /\ reference = Str(TOTAL)
    /\ \A i \in 1..Len(samples.v) : DictHas(samples_dict, samples.v[i])
    /\ SameBinning

\* the sum of bin i over the histogram-role samples
HistoSum(i) == BinTotal([h \in 1..Len(histos_dict) |-> histos_dict[h].v], i)

\* C26: in a constructed RatioPlot with reference 'total', when exactly one
\* sample is data the only numerator is that sample and its ratio in
\* bin i is data[i] over the sum of bin i of the histogram-role samples, 0
\* when that sum is 0; when no sample or more than one is data an error is
\* logged and numerators and ratiovalues are empty.
C26_TotalReference ==
    ReferenceTotal =>
        IF Len(data_dict) = 1
        THEN /\ numerators = data_dict
             /\ DictKeys(ratiovalues) = DictKeys(data_dict)
             /\ \A i \in 1..datasize :
                   LET r == ratiovalues[1].v[i]
                       n == data_dict[1].v.values[i]
                   IN  IF HistoSum(i) = 0 THEN r = Zero
                       ELSE r = Frac(n, HistoSum(i))
        ELSE /\ Logged(Err("need_one_data", <<>>))
             /\ numerators = <<>>
             /\ ratiovalues = <<>>

----------------------------------------------------------------------------
(* Properties of custom colours (SpecCustom) *)

\* colors_dict holds a colour list or a colour map ramp that color_options
\* assigned: no default assignment gives red, blue or a viridis colour
CustomColours ==
    /\ Len(colors_dict) > 0
    /\ \/ \A i \in 1..Len(colors_dict) : colors_dict[i].v \in {RED, BLUE}
       \/ \A i \in 1..Len(colors_dict) :
             colors_dict[i].v
                = colorlist_gen(PyLen(samples), VIRIDIS, FALSE)[i]

\* C28: once color_options has assigned a colour list or a colour map ramp
\* to a Hist1D, every plot_options call leaves colors_dict as it is,
\* whatever its arguments and whether or not the plot is stacked.
C28_CustomColoursPersist ==
    [][(CustomColours /\ op' = "plot_options")
          => colors_dict' = colors_dict]_vars

----------------------------------------------------------------------------
(* Properties of the option methods (SpecFrame) *)

OptionCalls ==
    {"plot_options", "color_options", "set_axislabels", "fontsize_options",
     "figure_options", "ratio_options"}

\* C21: on a constructed Hist1D or RatioPlot no call of plot_options,
\* color_options, set_axislabels, fontsize_options, figure_options or
\* ratio_options changes samples_dict, histos_dict, data_dict, plot_types
\* or edges.
C21_StoreReadOnly ==
    [][(pc = "ready" /\ op' \in OptionCalls)
          => UNCHANGED <<samples_dict, histos_dict, data_dict, plot_types,
                         edges>>]_vars

----------------------------------------------------------------------------
(* Properties of the pull plot (SpecPull, SpecPullColor) *)

\* pull_plot has drawn the x axis of the object
Drawn ==
    /\ pc = "ready" /\ cls = "PullPlot"
    /\ op = "pull_plot" /\ errs = <<>>

Largest(S) == CHOOSE m \in S : \A x \in S : x <= m

\* the largest absolute value among the errors of the frame
LargestAbs ==
    Largest({Abs(data[i].pos) : i \in 1..Len(data)}
            \cup {Abs(data[i].neg) : i \in 1..Len(data)})

\* the largest among the positive-side errors and the negated
\* negative-side errors, with their signs
LargestSigned ==
    Largest({data[i].pos : i \in 1..Len(data)}
            \cup {0 - data[i].neg : i \in 1..Len(data)})

\* the least whole number that is not below h, in hundredths
Ceiling(h) ==
    CHOOSE c \in {Centi(n) : n \in (0 - MaxErr)..MaxErr} :
        c >= h /\ c < h + Centi(1)

\* the range is center -+ (ceil(M) + 2) and the ticks run at step 1 from
\* xmin up to and including xmax
RangeFrom(M) ==
    LET R == Ceiling(M) + Centi(2) IN
    /\ xlim = <<center - R, center + R>>
    /\ Len(xticks) > 0
    /\ \A i \in 1..Len(xticks) : xticks[i] = xlim[1] + Centi(i - 1)
    /\ xticks[Len(xticks)] = xlim[2]

CustomRange ==
    /\ Len(rangelist) = 2
    /\ xlim = <<rangelist[1], rangelist[2]>>

IsColour(c) == c.t = "str" /\ Len(c.v) > 0

\* C29: after any sequence of PullPlot.color_options calls onesigmacolor,
\* twosigmacolor and the marker colour are colours, never None: a colour
\* that a call leaves out keeps its value.
C29_ColoursAlwaysDefined ==
    (pc = "ready" /\ cls = "PullPlot") =>
        /\ IsColour(onesigmacolor)
        /\ IsColour(twosigmacolor)
        /\ Len(DictGet(errorbar_kw, "color")) > 0

====
